---- MODULE Spec2Model ----
(***************************************************************************)
(* State-machine model of the ninav frontend: the gallery loader of        *)
(* App.tsx, the favorites store (useFavorites) and the Lightbox viewer.    *)
(***************************************************************************)
EXTENDS Integers, Sequences, FiniteSets, TLC

(* ------------------------------ bounds -------------------------------- *)
\* largest number of images the server holds
MaxTotal == 125
\* largest number of refreshGallery calls
MaxRefresh == 2

\* number of distinct image ids
NumIds == 2
\* longest array found in storage at startup
MaxStored == 2

\* clientWidth and clientHeight of the viewer element, in pixels
ViewerWidth == 8
ViewerHeight == 4
\* largest pointer coordinate, in pixels
MaxCoord == 40
\* largest number of pending notice timeouts
MaxTimers == 3

\* largest id of an image opened in the preview
MaxShown == 2
\* rename and delete requests in flight at once
MaxCalls == 1

\* longest image list given to useTimeline
MaxImages == 3
\* largest distance of the local time zone from UTC, in hours
MaxOffset == 5
\* persons the server can hold, person requests in flight, reloads of the person list
MaxPersons == 2
MaxRequests == 1
MaxReloads == 2

(* ------------------------- program constants -------------------------- *)
\* zoom levels are counted in hundredths
MIN_ZOOM == 50
MAX_ZOOM == 500
ZOOM_STEP == 25
\* zoom level 1 and the level set on entering zoom mode (1.5), in hundredths
ZoomOne == 100
ZoomEntry == 150
\* pan offsets are counted in 1/200 pixel, which makes ((zoom - 1) * size) / 2 exact
PanUnit == 200
FIRST_PAGE_SIZE == 30
pageSize == 60

(* ------------------------------ helpers ------------------------------- *)
Min(a, b) == IF a < b THEN a ELSE b
Max(a, b) == IF a > b THEN a ELSE b

VARIABLES
  serverTotal,     \* number of images in the server's ordered list L = <<1, .., serverTotal>>
  gallery,         \* GalleryState of App
  galleryVersion,  \* state galleryVersion of App
  effectVersion,   \* galleryVersion for which the load effect last ran (-1: not mounted)
  gen              \* per run of the load effect: its closure and the position of load()

VARIABLES
  favorites,       \* useFavorites: the Set, as the sequence of its elements in insertion order
  storage,         \* text stored under FAVORITES_STORAGE_KEY in localStorage
  favMounted,      \* the effects of the first render of useFavorites have run
  persistPending,  \* favorites changed and the persist effect has not run yet
  favLog           \* what the favorites store has done so far

VARIABLES
  viewer,          \* Lightbox: viewer state, panStartRef, lightboxNotice and pending timeouts
  viewerLog,       \* what the Lightbox viewer has done so far
  viewerEnv        \* what the user of the Lightbox does: where the pointer goes, how fast events follow

VARIABLES
  previewImage,    \* state previewImage of App: the image shown in the Lightbox
  mutation,        \* renameError, deleteError, renamePending, deletePending of App and
                   \* isRenaming, confirmDelete of the Lightbox
  calls,           \* rename and delete requests in flight, oldest first
  trashed,         \* images the server has moved to its trash
  previewLog       \* the last thing the preview did

VARIABLES
  timelineInput,   \* useTimeline: the images given to it and the local time-zone offset
  timelineResult   \* useTimeline: the timelineGroups and monthGroups it returned

VARIABLES
  activeView,        \* state activeView of App: the key of the view shown
  viewRouting,       \* what useViewRouting returned for activeView in the last render
  persons,           \* PersonState of App
  selectedPersonId,  \* state selectedPersonId of App
  personsVersion,    \* state personsVersion of App
  people,            \* the persons the server knows
  shell              \* the rest of the shell: dependencies its effects last saw, the persons
                     \* load and the requests in flight, its dialogs, what it has done so far

VARIABLES
  imageViewer        \* useImageViewer: its four states and its two refs

gvars == <<serverTotal, gallery, galleryVersion, effectVersion, gen>>
fvars == <<favorites, storage, favMounted, persistPending, favLog>>
lvars == <<viewer, viewerLog, viewerEnv>>
pvars == <<previewImage, mutation, calls, trashed, previewLog>>
tvars == <<timelineInput, timelineResult>>
svars == <<activeView, viewRouting, persons, selectedPersonId, personsVersion, people, shell>>
hvars == <<imageViewer>>
vars == <<gvars, fvars, lvars, pvars, tvars, svars, hvars>>

(* ============================ Gallery loader =========================== *)
NoError == "undefined"

\* values a rejected fetch can be rejected with
Thrown == { [isError |-> TRUE, message |-> "Request failed with status 500"],
            [isError |-> FALSE, message |-> "not an Error"] }

\* error instanceof Error ? error.message : 'Unknown error'
ErrorText(thrown) == IF thrown.isError THEN thrown.message ELSE "Unknown error"

\* the server's answer to GET /images?page&page_size: the slice of L at
\* offsets (page-1)*size .. min(page*size, total)-1
PageItems(page, size) ==
  LET first == (page - 1) * size
      last  == Min(page * size, serverTotal)
  IN  [i \in 1..Max(0, last - first) |-> first + i]

\* the same once images have been moved to the trash: the slice of what is
\* left of L
PageItemsLeft(page, size) ==
  LET left  == SelectSeq([i \in 1..serverTotal |-> i], LAMBDA image : image \notin trashed)
      first == (page - 1) * size
      last  == Min(page * size, Len(left))
  IN  [i \in 1..Max(0, last - first) |-> left[first + i]]

fetchImages(page, size) ==
  IF trashed = {}
    THEN [items |-> PageItems(page, size), page |-> page, page_size |-> size,
          total |-> serverTotal]
    ELSE [items |-> PageItemsLeft(page, size), page |-> page, page_size |-> size,
          total |-> serverTotal - Cardinality(trashed)]

\* one run of the load effect.  pc, cancelled, closureItems, items, currentPage
\* and total are the closure and locals of load / loadRemainingPages; request is
\* the argument of its last call of fetchImages; issued, answered, fetched,
\* lastCount, failed and thrown record what the run has done so far
IdleGen ==
  [pc |-> "idle", cancelled |-> FALSE, closureItems |-> <<>>, items |-> <<>>,
   currentPage |-> 0, total |-> 0, request |-> [page |-> 0, page_size |-> 0],
   issued |-> 0, answered |-> 0, fetched |-> 0, lastCount |-> 0, failed |-> FALSE,
   thrown |-> [isError |-> FALSE, message |-> ""]]

\* useState<GalleryState>({ items: [], total: 0, loading: true })
InitialGallery == [items |-> <<>>, total |-> 0, loading |-> TRUE, error |-> NoError]

\* no run of the load effect has started
NoGens == [g \in 0..MaxRefresh |-> IdleGen]

\* setGallery((prev) => ({ ...prev, loading: true, error: undefined }))
LoadStart(prev) == [prev EXCEPT !.loading = TRUE, !.error = NoError]

\* setGallery({ items: firstPage.items, total: firstPage.total, loading: false })
ApplyFirstPage(prev, firstPage) ==
  [items |-> firstPage.items, total |-> firstPage.total, loading |-> FALSE, error |-> NoError]

\* variant of ApplyFirstPageError that also empties the list
ApplyFirstPageError_ClearsItems(prev, thrown) ==
  [prev EXCEPT !.items = <<>>, !.loading = FALSE, !.error = ErrorText(thrown)]

\* catch of load(): setGallery((prev) => ({ ...prev, loading: false, error: ... }))
ApplyFirstPageError(prev, thrown) ==
  [prev EXCEPT !.loading = FALSE, !.error = ErrorText(thrown)]

\* setGallery((prev) => ({ ...prev, items: [...items] }))
ApplyBackgroundPage(prev, items) == [prev EXCEPT !.items = items]

\* variant of FirstPageApplies without the cancellation test
FirstPageApplies_IgnoresCancel(r) == TRUE

\* the guard `if (!cancelled)` of load() and of its catch
FirstPageApplies(r) == ~r.cancelled

\* the guard `if (!cancelled && page.items.length > 0)` of loadRemainingPages
BackgroundPageApplies(r, page) == ~r.cancelled /\ Len(page.items) > 0

\* variant of LoopHead that asks for pages of the size of the first page
LoopHead_FirstPageSize(r) ==
  IF Len(r.items) < r.total /\ ~r.cancelled
    THEN [r EXCEPT !.pc = "bg", !.issued = @ + 1,
                   !.request = [page |-> r.currentPage, page_size |-> FIRST_PAGE_SIZE]]
    ELSE [r EXCEPT !.pc = "done"]

\* head of `while (items.length < total && !cancelled)`: the next fetch is
\* issued, or the function returns
LoopHead(r) ==
  IF Len(r.items) < r.total /\ ~r.cancelled
    THEN [r EXCEPT !.pc = "bg", !.issued = @ + 1,
                   !.request = [page |-> r.currentPage, page_size |-> pageSize]]
    ELSE [r EXCEPT !.pc = "done"]

\* loadRemainingPages(total, loaded) up to its first await; `loaded` is unused
\* and the local list starts from the gallery.items the effect closed over
LoadRemainingPages(r, total, loaded) ==
  LoopHead([r EXCEPT !.currentPage = 2, !.items = r.closureItems, !.total = total])

\* the effect of [galleryVersion]: cleanup of the previous run, then load()
\* up to its first await
GalleryEffect ==
  /\ effectVersion # galleryVersion
  /\ gallery' = LoadStart(gallery)
  /\ gen' = [g \in 0..MaxRefresh |->
               IF g = galleryVersion
                 THEN [IdleGen EXCEPT !.pc = "first", !.closureItems = gallery.items,
                                      !.request = [page |-> 1, page_size |-> FIRST_PAGE_SIZE],
                                      !.issued = 1]
               ELSE IF g = effectVersion
                 THEN [gen[g] EXCEPT !.cancelled = TRUE]
               ELSE gen[g]]
  /\ effectVersion' = galleryVersion
  /\ UNCHANGED <<fvars, lvars, pvars, tvars, svars, hvars, serverTotal, galleryVersion>>

\* refreshGallery: setGalleryVersion((prev) => prev + 1)
refreshGallery ==
  /\ effectVersion >= 0
  /\ galleryVersion < MaxRefresh
  /\ galleryVersion' = galleryVersion + 1
  /\ UNCHANGED <<fvars, lvars, pvars, tvars, svars, hvars, serverTotal, gallery, effectVersion, gen>>

\* fetchImages({ page: 1, page_size: 30 }) resolves
FirstPageResolve(g) ==
  /\ gen[g].pc = "first"
  /\ LET firstPage == fetchImages(gen[g].request.page, gen[g].request.page_size)
         r == [gen[g] EXCEPT !.answered = @ + 1,
                             !.fetched = @ + Len(firstPage.items),
                             !.lastCount = Len(firstPage.items)]
     IN  IF FirstPageApplies(r)
           THEN /\ gallery' = ApplyFirstPage(gallery, firstPage)
                /\ gen' = [gen EXCEPT ![g] =
                             IF firstPage.total > Len(firstPage.items)
                               THEN LoadRemainingPages(r, firstPage.total, Len(firstPage.items))
                               ELSE [r EXCEPT !.pc = "done"]]
           ELSE /\ gallery' = gallery
                /\ gen' = [gen EXCEPT ![g] = [r EXCEPT !.pc = "done"]]
  /\ UNCHANGED <<fvars, lvars, pvars, tvars, svars, hvars, serverTotal, galleryVersion, effectVersion>>

\* fetchImages({ page: 1, page_size: 30 }) rejects
FirstPageReject(g) ==
  /\ gen[g].pc = "first"
  /\ \E thrown \in Thrown :
       /\ gallery' = IF FirstPageApplies(gen[g])
                      THEN ApplyFirstPageError(gallery, thrown)
                      ELSE gallery
       /\ gen' = [gen EXCEPT ![g] = [@ EXCEPT !.pc = "done", !.answered = @ + 1,
                                              !.failed = TRUE, !.thrown = thrown]]
  /\ UNCHANGED <<fvars, lvars, pvars, tvars, svars, hvars, serverTotal, galleryVersion, effectVersion>>

\* fetchImages({ page: currentPage, page_size: 60 }) resolves
BackgroundPageResolve(g) ==
  /\ gen[g].pc = "bg"
  /\ LET page == fetchImages(gen[g].request.page, gen[g].request.page_size)
         r == [gen[g] EXCEPT !.answered = @ + 1,
                             !.fetched = @ + Len(page.items),
                             !.lastCount = Len(page.items)]
     IN  IF BackgroundPageApplies(r, page)
           THEN LET items == r.items \o page.items
                IN  /\ gallery' = ApplyBackgroundPage(gallery, items)
                    /\ gen' = [gen EXCEPT ![g] =
                                 LoopHead([r EXCEPT !.items = items,
                                                    !.currentPage = @ + 1])]
           ELSE /\ gallery' = gallery
                /\ gen' = [gen EXCEPT ![g] = [r EXCEPT !.pc = "done"]]
  /\ UNCHANGED <<fvars, lvars, pvars, tvars, svars, hvars, serverTotal, galleryVersion, effectVersion>>

\* variant of BackgroundPageReject that surfaces the failure like load() does
BackgroundPageReject_Surfaced(g) ==
  /\ gen[g].pc = "bg"
  /\ gallery' = [gallery EXCEPT !.loading = FALSE, !.error = "Unknown error"]
  /\ gen' = [gen EXCEPT ![g] = [@ EXCEPT !.pc = "done", !.answered = @ + 1, !.failed = TRUE]]
  /\ UNCHANGED <<fvars, lvars, pvars, tvars, svars, hvars, serverTotal, galleryVersion, effectVersion>>

\* fetchImages({ page: currentPage, page_size: 60 }) rejects: logged, break
BackgroundPageReject(g) ==
  /\ gen[g].pc = "bg"
  /\ gen' = [gen EXCEPT ![g] = [@ EXCEPT !.pc = "done", !.answered = @ + 1, !.failed = TRUE]]
  /\ UNCHANGED <<fvars, lvars, pvars, tvars, svars, hvars, serverTotal, gallery, galleryVersion, effectVersion>>

GalleryNext ==
  \/ GalleryEffect
  \/ refreshGallery
  \/ \E g \in 0..MaxRefresh : FirstPageResolve(g)
  \/ \E g \in 0..MaxRefresh : FirstPageReject(g)
  \/ \E g \in 0..MaxRefresh : BackgroundPageResolve(g)
  \/ \E g \in 0..MaxRefresh : BackgroundPageReject(g)


(* ----------------------- claims: gallery loader ----------------------- *)
Gens == 0..MaxRefresh

\* the server's ordered list L
ServerList == [i \in 1..serverTotal |-> i]

IsPrefix(s, t) == Len(s) <= Len(t) /\ \A i \in 1..Len(s) : s[i] = t[i]

\* a generation whose effect has been cleaned up by a later run
Stale(g) == gen[g].pc # "idle" /\ g # effectVersion

\* C1: in every reachable state of the gallery loader the number of entries
\* of GalleryState.items never exceeds GalleryState.total.
C1_ItemsNeverExceedTotal == Len(gallery.items) <= gallery.total

\* C2: with a fixed server list L answered in slices, GalleryState.items is in
\* every reachable state a prefix of L (nothing missing, duplicated or out of
\* order).
C2_ItemsArePrefixOfServerOrder == IsPrefix(gallery.items, ServerList)

\* C3: once a new load cycle has started, no completion of a fetch issued by
\* an earlier generation (first page, background page or failure) changes
\* GalleryState, and the earlier generation issues no further request.
C3_StaleCompletionsAreDropped ==
  [][\A g \in Gens :
       (Stale(g) /\ gen'[g] # gen[g])
         => /\ gallery' = gallery
            /\ gen'[g].pc = "done"
            /\ gen'[g].issued = gen[g].issued]_vars

\* a stale generation received a non-empty background page and dropped it,
\* while another stale generation received its first page and dropped it
C3_Witness ==
  /\ \E g \in Gens :
       /\ Stale(g) /\ gen[g].pc = "done" /\ ~gen[g].failed
       /\ gen[g].currentPage >= 2 /\ gen[g].lastCount > 0
       /\ Len(gen[g].items) < gen[g].total
  /\ \E g \in Gens :
       /\ Stale(g) /\ gen[g].pc = "done" /\ ~gen[g].failed
       /\ gen[g].currentPage = 0 /\ gen[g].fetched > 0

\* C4: for a generation that is not cancelled and in which no fetch failed,
\* once it has stopped issuing requests the number of displayed items equals
\* min(total, sum of the item counts of all pages it fetched), and it has not
\* stopped while the displayed count is below total and the last page
\* received was non-empty.
C4_FinalCountIsMinOfTotalAndFetched ==
  \A g \in Gens :
    (gen[g].pc = "done" /\ ~gen[g].cancelled /\ ~gen[g].failed)
      => /\ Len(gallery.items) = Min(gallery.total, gen[g].fetched)
         /\ ~(Len(gallery.items) < gallery.total /\ gen[g].lastCount > 0)

\* the step in which the first-page fetch of the current generation fails
FirstPageFailsNow(g) ==
  g = effectVersion /\ gen[g].pc = "first" /\ gen'[g].failed

\* C5: when the first-page fetch of the current generation fails, the
\* resulting GalleryState has error set to the failure message, loading =
\* false and an empty items list, also when items were being displayed.
C5_FirstPageFailureClearsItems ==
  [][\A g \in Gens :
       FirstPageFailsNow(g)
         => /\ gallery'.error = ErrorText(gen'[g].thrown)
            /\ gallery'.loading = FALSE
            /\ gallery'.items = <<>>]_vars

\* C5 as amended: the failure sets error (the message of the Error, or
\* 'Unknown error' for a value that is not an Error) and loading = false and
\* leaves items and total as they were.
C5_FirstPageFailureKeepsItems ==
  [][\A g \in Gens :
       FirstPageFailsNow(g)
         => /\ gallery'.error = ErrorText(gen'[g].thrown)
            /\ gallery'.error # NoError
            /\ gallery'.loading = FALSE
            /\ gallery'.items = gallery.items
            /\ gallery'.total = gallery.total]_vars

\* the first page of a refresh failed while items of an earlier load were
\* displayed
C5_Witness ==
  /\ effectVersion >= 1
  /\ gen[effectVersion].pc = "done" /\ gen[effectVersion].failed
  /\ gen[effectVersion].currentPage = 0
  /\ gallery.error # NoError /\ ~gallery.loading
  /\ Len(gallery.items) > 0

\* C6: when a background page fetch fails, GalleryState is left entirely
\* unchanged by the failure and the generation requests no further pages.
C6_BackgroundFailureIsSilent ==
  [][\A g \in Gens :
       /\ (gen[g].pc = "bg" /\ gen'[g].failed)
            => /\ gallery' = gallery
               /\ gen'[g].pc = "done"
               /\ gen'[g].issued = gen[g].issued
       /\ (gen[g].pc = "done")
            => /\ gen'[g].pc = "done"
               /\ gen'[g].issued = gen[g].issued]_vars

\* a background page of the current generation failed after an earlier
\* background page had been displayed; no error is shown
C6_Witness ==
  \E g \in Gens :
    /\ g = effectVersion /\ gen[g].pc = "done" /\ gen[g].failed
    /\ gen[g].currentPage >= 3
    /\ gallery.items = gen[g].items /\ Len(gallery.items) > 0
    /\ gallery.error = NoError /\ ~gallery.loading

\* C22: within one run of the load effect the requests are page 1 with page_size
\* 30, then pages 2, 3, 4, ... with page_size 60; a page is requested only when the
\* response for the page before it has been received and applied, at most one
\* request of the run is outstanding, and the first page has been applied with
\* loading = false when page 2 is requested.
C22_PagesAreRequestedInOrder ==
  /\ [](\A g \in Gens :
          /\ gen[g].issued - gen[g].answered \in {0, 1}
          /\ gen[g].issued - gen[g].answered = 1 <=> gen[g].pc \in {"first", "bg"})
  /\ [][\A g \in Gens :
          gen'[g].issued # gen[g].issued =>
            /\ gen'[g].issued = gen[g].issued + 1
            /\ gen'[g].request =
                 [page |-> gen'[g].issued,
                  page_size |-> IF gen'[g].issued = 1 THEN 30 ELSE 60]
            /\ gen'[g].issued > 1 =>
                 /\ gen[g].issued = gen[g].answered + 1
                 /\ gen'[g].answered = gen[g].answered + 1
                 /\ gen'[g].lastCount > 0
                 /\ ~gallery'.loading
                 /\ gen'[g].issued = 2 =>
                      /\ Len(gallery'.items) = gen'[g].lastCount
                      /\ IsPrefix(gallery'.items, ServerList)
                      /\ gallery'.total = serverTotal
                 /\ gen'[g].issued > 2 => gallery'.items = gen'[g].items]_vars

\* page 3 of a run has been requested
C22_Witness == \E g \in Gens : gen[g].pc = "bg" /\ gen[g].issued = 3 /\ gen[g].request.page = 3

(* ============================ Favorites store ========================== *)
Ids == 1..NumIds

Range(s) == {s[i] : i \in 1..Len(s)}

SeqsUpTo(n) == UNION {[1..k -> Ids] : k \in 0..n}

\* texts localStorage can hold under the key: no entry, the empty string,
\* text that is not JSON, JSON that is not iterable (a number, true, an
\* object), the JSON null, a JSON string (elems: its characters) and a JSON
\* array (elems: its elements)
StoredKinds == {"absent", "empty", "invalid", "nonIterable", "null"}

StoredValues ==
  {[kind |-> k, elems |-> <<>>] : k \in StoredKinds}
    \cup {[kind |-> k, elems |-> e] : k \in {"string", "array"}, e \in SeqsUpTo(MaxStored)}

Absent == [kind |-> "absent", elems |-> <<>>]

\* `if (stored)`: null and the empty string are falsy
Truthy(stored) == stored.kind \notin {"absent", "empty"}

\* JSON.parse(stored): throws SyntaxError on text that is not JSON
JSONParse(stored) ==
  IF stored.kind = "invalid"
    THEN [threw |-> TRUE, value |-> Absent]
    ELSE [threw |-> FALSE, value |-> stored]

RECURSIVE Dedupe(_)
Dedupe(s) ==
  IF s = <<>> THEN <<>>
  ELSE LET init == Dedupe(SubSeq(s, 1, Len(s) - 1))
           x == s[Len(s)]
       IN  IF x \in Range(init) THEN init ELSE Append(init, x)

\* new Set(value): null gives the empty Set, a string the Set of its
\* characters, an array the Set of its elements, anything else a TypeError
NewSet(value) ==
  CASE value.kind = "null" -> [threw |-> FALSE, set |-> <<>>]
    [] value.kind \in {"string", "array"} -> [threw |-> FALSE, set |-> Dedupe(value.elems)]
    [] OTHER -> [threw |-> TRUE, set |-> <<>>]

\* JSON.stringify(Array.from(favorites))
JSONStringify(fav) == [kind |-> "array", elems |-> fav]

\* body of the try block of the load effect
TryLoad(stored, readThrows) ==
  IF readThrows THEN [threw |-> TRUE, update |-> FALSE, set |-> <<>>]
  ELSE IF ~Truthy(stored) THEN [threw |-> FALSE, update |-> FALSE, set |-> <<>>]
  ELSE LET parsed == JSONParse(stored)
       IN  IF parsed.threw THEN [threw |-> TRUE, update |-> FALSE, set |-> <<>>]
           ELSE LET made == NewSet(parsed.value)
                IN  IF made.threw THEN [threw |-> TRUE, update |-> FALSE, set |-> <<>>]
                    ELSE [threw |-> FALSE, update |-> TRUE, set |-> made.set]

\* variant of LoadEffect without the try / catch
LoadEffect_NoCatch(stored, readThrows) ==
  LET r == TryLoad(stored, readThrows)
  IN  [uncaught |-> r.threw, update |-> r.update, set |-> r.set]

\* the load effect: try { ... setFavorites(new Set(JSON.parse(stored))) } catch {}
LoadEffect(stored, readThrows) ==
  LET r == TryLoad(stored, readThrows)
  IN  [uncaught |-> FALSE, update |-> r.update, set |-> r.set]

\* the persist effect: try { localStorage.setItem(key, ...) } catch {}
PersistWrite(stored, fav, writeThrows) ==
  IF writeThrows THEN stored ELSE JSONStringify(fav)

\* variant of Toggle that never removes
Toggle_AddOnly(fav, imageId) ==
  IF imageId \in Range(fav) THEN fav ELSE Append(fav, imageId)

\* the updater of toggleFavorite on a Set kept in insertion order
Toggle(fav, imageId) ==
  IF imageId \in Range(fav)
    THEN SelectSeq(fav, LAMBDA x : x # imageId)
    ELSE Append(fav, imageId)

\* the most recent entry of a log
LastOne(s) == IF s = <<>> THEN <<>> ELSE <<s[Len(s)]>>

\* nothing has happened yet; stored is the text found in localStorage
InitialFavLog(stored) ==
  [storedAtStart |-> stored, readFailed |-> FALSE, uncaught |-> FALSE,
   lastWriteFailed |-> FALSE, trail |-> <<>>]

\* the effects of the first render, in declaration order: the load effect,
\* then the persist effect with the initial empty Set; the update queued by
\* the load effect is rendered afterwards
FavoritesMount ==
  /\ ~favMounted
  /\ \E readThrows \in BOOLEAN, writeThrows \in BOOLEAN :
       LET loaded == LoadEffect(storage, readThrows)
       IN  /\ storage' = PersistWrite(storage, favorites, writeThrows)
           /\ favorites' = IF loaded.update THEN loaded.set ELSE favorites
           /\ persistPending' = loaded.update
           /\ favLog' = [favLog EXCEPT !.readFailed = readThrows,
                                       !.uncaught = loaded.uncaught,
                                       !.lastWriteFailed = writeThrows]
  /\ favMounted' = TRUE
  /\ UNCHANGED <<gvars, lvars, pvars, tvars, svars, hvars>>

\* the persist effect of a render in which favorites changed
PersistEffect ==
  /\ favMounted /\ persistPending
  /\ \E writeThrows \in BOOLEAN :
       /\ storage' = PersistWrite(storage, favorites, writeThrows)
       /\ favLog' = [favLog EXCEPT !.lastWriteFailed = writeThrows]
  /\ persistPending' = FALSE
  /\ UNCHANGED <<gvars, lvars, pvars, tvars, svars, hvars, favorites, favMounted>>

\* variant of toggleFavorite after which the persist effect does not run
toggleFavorite_NotPersisted(imageId) ==
  /\ favMounted
  /\ favorites' = Toggle(favorites, imageId)
  /\ favLog' = [favLog EXCEPT !.trail =
                  LastOne(@) \o <<[before |-> Range(favorites), id |-> imageId]>>]
  /\ UNCHANGED <<gvars, lvars, pvars, tvars, svars, hvars, storage, favMounted, persistPending>>

\* toggleFavorite(imageId): setFavorites(updater); the new Set re-runs the
\* persist effect
toggleFavorite(imageId) ==
  /\ favMounted
  /\ favorites' = Toggle(favorites, imageId)
  /\ persistPending' = TRUE
  /\ favLog' = [favLog EXCEPT !.trail =
                  LastOne(@) \o <<[before |-> Range(favorites), id |-> imageId]>>]
  /\ UNCHANGED <<gvars, lvars, pvars, tvars, svars, hvars, storage, favMounted>>

FavoritesNext ==
  \/ FavoritesMount
  \/ PersistEffect
  \/ \E imageId \in Ids : toggleFavorite(imageId)

(* ----------------------- claims: favorites store ---------------------- *)
\* S with the membership of id flipped
Flip(S, id) == IF id \in S THEN S \ {id} ELSE S \cup {id}

NoDuplicates(s) == Cardinality(Range(s)) = Len(s)

\* C7: toggle(id) on a favorites set S yields exactly S with the membership
\* of id flipped; two successive toggles of the same id restore S.
C7_ToggleFlipsMembership ==
  LET trail == favLog.trail
  IN  /\ NoDuplicates(favorites)
      /\ (Len(trail) >= 1)
           => Range(favorites) = Flip(trail[Len(trail)].before, trail[Len(trail)].id)
      /\ (Len(trail) = 2 /\ trail[1].id = trail[2].id)
           => Range(favorites) = trail[1].before

\* an id of a set of two favorites has been toggled off and on again
C7_Witness ==
  /\ Len(favLog.trail) = 2
  /\ favLog.trail[1].id = favLog.trail[2].id
  /\ favLog.trail[1].id \in favLog.trail[1].before
  /\ Cardinality(favLog.trail[1].before) = 2
  /\ Range(favorites) = favLog.trail[1].before

\* C8: after any sequence of toggles, whenever no render or effect is pending
\* and storage writes succeed, the JSON array stored under the key contains
\* exactly the ids of the in-memory favorites set.
C8_StorageMirrorsFavorites ==
  (favMounted /\ ~persistPending /\ ~favLog.lastWriteFailed)
    => /\ storage.kind = "array"
       /\ Range(storage.elems) = Range(favorites)
       /\ NoDuplicates(storage.elems)

\* two toggles have been persisted and the stored array is the non-empty set
C8_Witness ==
  /\ favMounted /\ ~persistPending /\ ~favLog.lastWriteFailed
  /\ Len(favLog.trail) = 2
  /\ favorites # <<>>
  /\ storage = JSONStringify(favorites)
  /\ storage # favLog.storedAtStart

\* the stored text cannot be decoded: no entry, empty text, text that is not
\* JSON, or JSON from which no Set can be built
Undecodable(stored) == stored.kind \in {"absent", "empty", "invalid", "nonIterable"}

\* C9: favorites initialization never throws; when the key is absent, reading
\* fails or the stored text cannot be decoded into a collection of ids, the
\* set after startup is empty; when a valid array is stored, the set after
\* startup is exactly its elements.
C9_StartupNeverThrows ==
  (favMounted /\ favLog.trail = <<>>)
    => /\ ~favLog.uncaught
       /\ (favLog.readFailed \/ Undecodable(favLog.storedAtStart))
            => favorites = <<>>
       /\ (~favLog.readFailed /\ favLog.storedAtStart.kind = "array")
            => /\ Range(favorites) = Range(favLog.storedAtStart.elems)
               /\ NoDuplicates(favorites)

\* startup has run on a stored array of two different ids
C9_Witness ==
  /\ favMounted /\ favLog.trail = <<>> /\ ~favLog.readFailed
  /\ favLog.storedAtStart.kind = "array"
  /\ Cardinality(Range(favLog.storedAtStart.elems)) = 2
  /\ Len(favorites) = 2

\* C23: the storage entry is written only because the favorites set changed: from
\* the start until the first toggle the stored value is never replaced by a value
\* that denotes another set than the one stored before the start, in particular
\* not by the empty array while a non-empty set was stored.
C23_StartupKeepsStoredSet ==
  (favLog.trail = <<>> /\ favLog.storedAtStart.kind = "array")
    => /\ storage.kind = "array"
       /\ Range(storage.elems) = Range(favLog.storedAtStart.elems)

(* ============================ Lightbox viewer ========================== *)
ViewerModes == {"frame", "fill", "zoom"}

\* VIEWER_MODE_OPTIONS, in order
VIEWER_MODE_OPTIONS == <<"frame", "fill", "zoom">>

\* VIEWER_MODE_MESSAGES
VIEWER_MODE_MESSAGES(mode) ==
  CASE mode = "frame" -> "Fit to frame"
    [] mode = "fill" -> "Fill view"
    [] mode = "zoom" -> "Zoom & pan"

NoNotice == "null"

PointerIds == {1, 2}
\* positions the pointer takes
Points == {[x |-> 0, y |-> 0], [x |-> MaxCoord, y |-> MaxCoord]}

Origin == [x |-> 0, y |-> 0]

\* panStartRef.current = null
NoPanStart == [set |-> FALSE, pointerId |-> 0, x |-> 0, y |-> 0, panX |-> 0, panY |-> 0]

\* state of a freshly mounted Lightbox
ViewerInitial ==
  [viewerMode |-> "frame", baseViewerMode |-> "frame", zoomLevel |-> ZoomOne,
   panOffset |-> Origin, isPanning |-> FALSE, panStart |-> NoPanStart,
   lightboxNotice |-> NoNotice, timers |-> <<>>]

\* a user who moves the pointer over the image and lets every notice time
\* out before the next action
PanningUser == [points |-> Points, pointers |-> {1}, busyLimit |-> 0]

\* a user who keeps the pointer in one place and acts while notices are
\* still displayed
TwoPointerUser == [points |-> Points, pointers |-> PointerIds, busyLimit |-> 0]

HastyUser == [points |-> {Origin}, pointers |-> PointerIds, busyLimit |-> MaxTimers]

\* what has been observed of the viewer: the modes before the last consecutive
\* cycle events, the last event and whether it changed the zoom level and the
\* pan offset, the non-zoom mode before zoom was last entered, and the position
\* among the pending timeouts of the one started with the displayed notice
\* (0: none)
InitialViewerLog ==
  [cycleTrail |-> <<>>, event |-> "none", zoomMoved |-> FALSE, panMoved |-> FALSE,
   modeBeforeZoom |-> "frame", noticeTimer |-> 0, gestureEnded |-> FALSE, foreign |-> FALSE]

\* Math.max(lo, Math.min(hi, x))
Clamp(lo, hi, x) == Max(lo, Min(hi, x))

\* variant of clampPanOffset without the test zoom <= 1
clampPanOffset_NoZoomTest(offset, zoom) ==
  LET maxX == ((zoom - ZoomOne) * ViewerWidth * PanUnit) \div (2 * ZoomOne)
      maxY == ((zoom - ZoomOne) * ViewerHeight * PanUnit) \div (2 * ZoomOne)
  IN  [x |-> Clamp(-maxX, maxX, offset.x), y |-> Clamp(-maxY, maxY, offset.y)]

\* clampPanOffset(offset, zoom); the viewer element is mounted
clampPanOffset(offset, zoom) ==
  IF zoom <= ZoomOne THEN Origin
  ELSE LET maxX == ((zoom - ZoomOne) * ViewerWidth * PanUnit) \div (2 * ZoomOne)
           maxY == ((zoom - ZoomOne) * ViewerHeight * PanUnit) \div (2 * ZoomOne)
       IN  [x |-> Clamp(-maxX, maxX, offset.x), y |-> Clamp(-maxY, maxY, offset.y)]

\* flashLightboxNotice(message): show the notice and start a 2000 ms timeout;
\* timers holds the messages of the pending timeouts, oldest first
flashLightboxNotice(v, message) ==
  [v EXCEPT !.lightboxNotice = message, !.timers = Append(@, message)]

\* resetZoomState()
resetZoomState(v) ==
  [v EXCEPT !.viewerMode = "frame", !.zoomLevel = ZoomOne, !.panOffset = Origin,
            !.isPanning = FALSE, !.panStart = NoPanStart]

\* handleViewerModeChange(mode, { announce }): the updater given to
\* variant of handleViewerModeChange that leaves a pan gesture in progress
handleViewerModeChange_KeepsGesture(v, mode, announce) ==
  IF v.viewerMode = mode THEN v
  ELSE LET v1 == IF mode # "zoom"
                   THEN [v EXCEPT !.baseViewerMode = mode, !.zoomLevel = ZoomOne,
                                  !.panOffset = Origin]
                   ELSE [v EXCEPT !.zoomLevel = ZoomEntry, !.panOffset = Origin,
                                  !.panStart = NoPanStart]
           v2 == IF announce THEN flashLightboxNotice(v1, VIEWER_MODE_MESSAGES(mode)) ELSE v1
       IN  [v2 EXCEPT !.viewerMode = mode]

\* setViewerMode and the state changes it makes
handleViewerModeChange(v, mode, announce) ==
  IF v.viewerMode = mode THEN v
  ELSE LET v1 == IF mode # "zoom"
                   THEN [v EXCEPT !.baseViewerMode = mode, !.zoomLevel = ZoomOne,
                                  !.panOffset = Origin, !.isPanning = FALSE,
                                  !.panStart = NoPanStart]
                   ELSE [v EXCEPT !.zoomLevel = ZoomEntry, !.panOffset = Origin,
                                  !.panStart = NoPanStart]
           v2 == IF announce THEN flashLightboxNotice(v1, VIEWER_MODE_MESSAGES(mode)) ELSE v1
       IN  [v2 EXCEPT !.viewerMode = mode]

\* index of a mode in VIEWER_MODE_OPTIONS, counted from 0
FindIndex(mode) == (CHOOSE i \in 1..Len(VIEWER_MODE_OPTIONS) : VIEWER_MODE_OPTIONS[i] = mode) - 1

\* variant of NextOption that skips zoom
NextOption_SkipsZoom(mode) == IF mode = "frame" THEN "fill" ELSE "frame"

\* VIEWER_MODE_OPTIONS[(currentIndex + 1) % VIEWER_MODE_OPTIONS.length]
NextOption(mode) ==
  VIEWER_MODE_OPTIONS[((FindIndex(mode) + 1) % Len(VIEWER_MODE_OPTIONS)) + 1]

\* the observation after an event that takes viewer to viewer'
Observe(event, trail) ==
  [cycleTrail |-> trail, event |-> event,
   zoomMoved |-> viewer'.zoomLevel # viewer.zoomLevel,
   panMoved |-> viewer'.panOffset # viewer.panOffset,
   modeBeforeZoom |-> IF viewer.viewerMode # "zoom" /\ viewer'.viewerMode = "zoom"
                        THEN viewer.viewerMode ELSE viewerLog.modeBeforeZoom,
   noticeTimer |-> IF Len(viewer'.timers) > Len(viewer.timers) THEN Len(viewer'.timers)
                   ELSE IF Len(viewer'.timers) < Len(viewer.timers)
                     THEN Max(0, viewerLog.noticeTimer - 1)
                   ELSE IF viewer'.lightboxNotice # viewer.lightboxNotice THEN 0
                   ELSE viewerLog.noticeTimer,
   gestureEnded |-> viewer.panStart.set /\ ~viewer'.panStart.set,
   foreign |-> FALSE]

\* the log after an event of a pointer: foreign if a gesture of another pointer is recorded
ObservePointer(event, pointerId) ==
  [Observe(event, <<>>) EXCEPT
     !.foreign = viewer.panStart.set /\ viewer.panStart.pointerId # pointerId]

\* the user acts: no more timeouts are pending than this user waits for
UserActs == Len(viewer.timers) <= viewerEnv.busyLimit

\* a handler that shows a notice can run: the pending timeouts are bounded
CanFlash == UserActs /\ Len(viewer.timers) < MaxTimers

\* cycleViewerMode(): key 'z' or the mode button
cycleViewerMode ==
  /\ CanFlash
  /\ viewer' = handleViewerModeChange(viewer, NextOption(viewer.viewerMode), TRUE)
  /\ viewerLog' = Observe("cycle", (IF Len(viewerLog.cycleTrail) = 3
                                        THEN Tail(viewerLog.cycleTrail)
                                        ELSE viewerLog.cycleTrail) \o <<viewer.viewerMode>>)
  /\ UNCHANGED <<gvars, fvars, pvars, tvars, svars, hvars, viewerEnv>>

\* toggleZoomShortcut(): double click on the viewer
toggleZoomShortcut ==
  /\ CanFlash
  /\ viewer' = IF viewer.viewerMode = "zoom"
                 THEN handleViewerModeChange(viewer, viewer.baseViewerMode, TRUE)
                 ELSE handleViewerModeChange(viewer, "zoom", TRUE)
  /\ viewerLog' = Observe("toggleZoom", <<>>)
  /\ UNCHANGED <<gvars, fvars, pvars, tvars, svars, hvars, viewerEnv>>

\* variant of WheelZoom whose upper bound is one step too high
WheelZoom_StepPastMax(v, direction) ==
  LET next == Clamp(MIN_ZOOM, MAX_ZOOM + ZOOM_STEP, v.zoomLevel + direction * ZOOM_STEP)
  IN  [v EXCEPT !.zoomLevel = next, !.panOffset = clampPanOffset(v.panOffset, next)]

\* the zoom updater of handleViewerWheel: the next level and the re-clamped pan
WheelZoom(v, direction) ==
  LET next == Clamp(MIN_ZOOM, MAX_ZOOM, v.zoomLevel + direction * ZOOM_STEP)
  IN  [v EXCEPT !.zoomLevel = next, !.panOffset = clampPanOffset(v.panOffset, next)]

\* handleViewerWheel(event).  Outside zoom mode the handler first calls
\* handleViewerModeChange('zoom', { announce: false }) and then queues the zoom
\* updater.  React runs the mode updater either at once (eagerly: its
\* setZoomLevel(1.5) is queued before the zoom updater) or while rendering
\* (its setZoomLevel(1.5) is queued after the zoom updater)
handleViewerWheel(direction, eager) ==
  /\ UserActs
  /\ viewer' = IF viewer.viewerMode = "zoom"
                 THEN WheelZoom(viewer, direction)
               ELSE IF eager
                 THEN WheelZoom(handleViewerModeChange(viewer, "zoom", FALSE), direction)
               ELSE handleViewerModeChange(WheelZoom(viewer, direction), "zoom", FALSE)
  /\ viewerLog' = Observe(IF direction = 1 THEN "wheelUp" ELSE "wheelDown", <<>>)
  /\ UNCHANGED <<gvars, fvars, pvars, tvars, svars, hvars, viewerEnv>>

\* handleViewerPointerDown(event)
handleViewerPointerDown(pointerId, clientX, clientY) ==
  /\ UserActs
  /\ viewer' = IF viewer.viewerMode # "zoom" THEN viewer
               ELSE [viewer EXCEPT
                       !.panStart = [set |-> TRUE, pointerId |-> pointerId,
                                     x |-> clientX, y |-> clientY,
                                     panX |-> viewer.panOffset.x,
                                     panY |-> viewer.panOffset.y],
                       !.isPanning = TRUE]
  /\ viewerLog' = Observe("pointerDown", <<>>)
  /\ UNCHANGED <<gvars, fvars, pvars, tvars, svars, hvars, viewerEnv>>

\* variant of handleViewerPointerMove that clamps as if at the highest zoom
handleViewerPointerMove_ClampsAtMaxZoom(pointerId, clientX, clientY) ==
  /\ UserActs
  /\ viewer' =
       LET start == viewer.panStart
       IN  IF viewer.viewerMode # "zoom" THEN viewer
           ELSE IF ~start.set \/ start.pointerId # pointerId THEN viewer
           ELSE LET deltaX == (clientX - start.x) * PanUnit
                    deltaY == (clientY - start.y) * PanUnit
                IN  [viewer EXCEPT !.panOffset =
                       clampPanOffset([x |-> start.panX + deltaX, y |-> start.panY + deltaY],
                                      MAX_ZOOM)]
  /\ viewerLog' = ObservePointer("pointerMove", pointerId)
  /\ UNCHANGED <<gvars, fvars, pvars, tvars, svars, hvars, viewerEnv>>

\* handleViewerPointerMove(event)
handleViewerPointerMove(pointerId, clientX, clientY) ==
  /\ UserActs
  /\ viewer' =
       LET start == viewer.panStart
       IN  IF viewer.viewerMode # "zoom" THEN viewer
           ELSE IF ~start.set \/ start.pointerId # pointerId THEN viewer
           ELSE LET deltaX == (clientX - start.x) * PanUnit
                    deltaY == (clientY - start.y) * PanUnit
                IN  [viewer EXCEPT !.panOffset =
                       clampPanOffset([x |-> start.panX + deltaX, y |-> start.panY + deltaY],
                                      viewer.zoomLevel)]
  /\ viewerLog' = ObservePointer("pointerMove", pointerId)
  /\ UNCHANGED <<gvars, fvars, pvars, tvars, svars, hvars, viewerEnv>>

\* variant of handleViewerPointerUpOrCancel that forgets the gesture but not isPanning
handleViewerPointerUpOrCancel_KeepsFlag(pointerId) ==
  /\ UserActs
  /\ viewer' = IF ~viewer.panStart.set \/ viewer.panStart.pointerId # pointerId
                 THEN viewer
                 ELSE [viewer EXCEPT !.panStart = NoPanStart]
  /\ viewerLog' = ObservePointer("pointerUp", pointerId)
  /\ UNCHANGED <<gvars, fvars, pvars, tvars, svars, hvars, viewerEnv>>

\* handleViewerPointerUpOrCancel(event): pointer up, leave or cancel
handleViewerPointerUpOrCancel(pointerId) ==
  /\ UserActs
  /\ viewer' = IF ~viewer.panStart.set \/ viewer.panStart.pointerId # pointerId
                 THEN viewer
                 ELSE [viewer EXCEPT !.panStart = NoPanStart, !.isPanning = FALSE]
  /\ viewerLog' = ObservePointer("pointerUp", pointerId)
  /\ UNCHANGED <<gvars, fvars, pvars, tvars, svars, hvars, viewerEnv>>

\* the effect of [image]: the displayed image changed
ImageChange ==
  /\ UserActs
  /\ viewer' = resetZoomState(viewer)
  /\ viewerLog' = Observe("imageChange", <<>>)
  /\ UNCHANGED <<gvars, fvars, pvars, tvars, svars, hvars, viewerEnv>>

\* handleShare(): the link is copied and a notice flashed, or sharing throws
\* and 'Unable to share' is set
handleShare(fails) ==
  /\ IF fails THEN UserActs ELSE CanFlash
  /\ viewer' = IF fails
                 THEN [viewer EXCEPT !.lightboxNotice = "Unable to share"]
                 ELSE flashLightboxNotice(viewer, "Link copied to clipboard")
  /\ viewerLog' = Observe(IF fails THEN "shareFailed" ELSE "share", <<>>)
  /\ UNCHANGED <<gvars, fvars, pvars, tvars, svars, hvars, viewerEnv>>

\* the oldest pending timeout fires:
\* setLightboxNotice((current) => (current === message ? null : current))
NoticeTimeout ==
  /\ viewer.timers # <<>>
  /\ viewer' = [viewer EXCEPT
                  !.lightboxNotice = IF @ = Head(viewer.timers) THEN NoNotice ELSE @,
                  !.timers = Tail(@)]
  /\ viewerLog' = Observe("timeout", viewerLog.cycleTrail)
  /\ UNCHANGED <<gvars, fvars, pvars, tvars, svars, hvars, viewerEnv>>

LightboxNext ==
  \/ cycleViewerMode
  \/ toggleZoomShortcut
  \/ \E direction \in {-1, 1}, eager \in BOOLEAN : handleViewerWheel(direction, eager)
  \/ \E id \in viewerEnv.pointers, p \in viewerEnv.points : handleViewerPointerDown(id, p.x, p.y)
  \/ \E id \in viewerEnv.pointers, p \in viewerEnv.points : handleViewerPointerMove(id, p.x, p.y)
  \/ \E id \in viewerEnv.pointers : handleViewerPointerUpOrCancel(id)
  \/ ImageChange
  \/ \E fails \in BOOLEAN : handleShare(fails)
  \/ NoticeTimeout

\* what a user does who pans with two pointers and leaves the wheel alone
LightboxTouchNext ==
  \/ cycleViewerMode
  \/ toggleZoomShortcut
  \/ \E id \in viewerEnv.pointers, p \in viewerEnv.points : handleViewerPointerDown(id, p.x, p.y)
  \/ \E id \in viewerEnv.pointers, p \in viewerEnv.points : handleViewerPointerMove(id, p.x, p.y)
  \/ \E id \in viewerEnv.pointers : handleViewerPointerUpOrCancel(id)
  \/ ImageChange
  \/ NoticeTimeout

(* ----------------------- claims: Lightbox viewer ---------------------- *)
\* C10: from any reachable viewer state, cycle maps mode frame to fill, fill
\* to zoom and zoom to frame, so three consecutive cycle events return the
\* mode to its starting value.
C10_CycleIsThreeCycle ==
  LET trail == viewerLog.cycleTrail
      before == trail[Len(trail)]
  IN  /\ (Len(trail) >= 1)
           => /\ before = "frame" => viewer.viewerMode = "fill"
              /\ before = "fill" => viewer.viewerMode = "zoom"
              /\ before = "zoom" => viewer.viewerMode = "frame"
      /\ (Len(trail) = 3) => viewer.viewerMode = trail[1]

\* three consecutive cycle events have run, starting in zoom mode, and the
\* viewer is in zoom mode again
C10_Witness ==
  /\ viewerLog.cycleTrail = <<"zoom", "frame", "fill">>
  /\ viewer.viewerMode = "zoom"

\* the largest pan offset at a zoom level, along a dimension of the container
PanLimit(zoom, dimension) == ((zoom - ZoomOne) * dimension * PanUnit) \div (2 * ZoomOne)

Abs(n) == IF n < 0 THEN -n ELSE n

\* C11: in every reachable state the zoom level lies in [0.5, 5.0], whatever
\* wheel, cycle, toggleZoom, pointer and image-change events came before, and
\* a wheel step in zoom mode moves the level by 0.25 or, where that would leave
\* the range, leaves it at the bound.
C11_ZoomStaysInRange ==
  /\ [](viewer.zoomLevel >= MIN_ZOOM /\ viewer.zoomLevel <= MAX_ZOOM)
  /\ [][/\ (viewerLog'.event = "wheelUp" /\ viewer.viewerMode = "zoom")
            => viewer'.zoomLevel = Min(MAX_ZOOM, viewer.zoomLevel + ZOOM_STEP)
        /\ (viewerLog'.event = "wheelDown" /\ viewer.viewerMode = "zoom")
            => viewer'.zoomLevel = Max(MIN_ZOOM, viewer.zoomLevel - ZOOM_STEP)]_vars

\* a wheel-up event arrived at the highest zoom level and left it there
C11_Witness ==
  /\ viewerLog.event = "wheelUp"
  /\ ~viewerLog.zoomMoved
  /\ viewer.viewerMode = "zoom"
  /\ viewer.zoomLevel = MAX_ZOOM

\* C12: in every reachable state the pan offset is (0,0) whenever the mode is
\* not zoom or the zoom level is at most 1, also after panning at a zoom above
\* 1 and then zooming out with the wheel to 1 or below.
C12_PanIsZeroOutsideZoom ==
  (viewer.viewerMode # "zoom" \/ viewer.zoomLevel <= ZoomOne) => viewer.panOffset = Origin

\* a wheel-down event brought the zoom level to 1 or below and moved a nonzero
\* pan offset to the origin
C12_Witness ==
  /\ viewerLog.event = "wheelDown"
  /\ viewerLog.panMoved
  /\ viewer.viewerMode = "zoom"
  /\ viewer.zoomLevel <= ZoomOne
  /\ viewer.panOffset = Origin

\* C13: in every reachable state with mode zoom and zoom above 1 the pan offset
\* satisfies |pan.x| <= (zoom-1)*W/2 and |pan.y| <= (zoom-1)*H/2 for the
\* container's width W and height H, also after a wheel event lowered the zoom.
C13_PanWithinBounds ==
  (viewer.viewerMode = "zoom" /\ viewer.zoomLevel > ZoomOne)
    => /\ Abs(viewer.panOffset.x) <= PanLimit(viewer.zoomLevel, ViewerWidth)
       /\ Abs(viewer.panOffset.y) <= PanLimit(viewer.zoomLevel, ViewerHeight)

\* a wheel-down event to a zoom level above 1 pulled the pan offset back to
\* the limit of the new level
C13_Witness ==
  /\ viewerLog.event = "wheelDown"
  /\ viewerLog.panMoved
  /\ viewer.viewerMode = "zoom"
  /\ viewer.zoomLevel > ZoomOne
  /\ Abs(viewer.panOffset.x) = PanLimit(viewer.zoomLevel, ViewerWidth)

\* C14: toggleZoom in zoom mode returns to the non-zoom mode the viewer was in
\* immediately before it last entered zoom (frame or fill, also the frame mode
\* set by an image change); in frame or fill mode it enters zoom with zoom
\* level 1.5 and pan (0,0).
C14_ToggleZoomReturnsToPriorMode ==
  [][viewerLog'.event = "toggleZoom"
       => IF viewer.viewerMode = "zoom"
            THEN viewer'.viewerMode = viewerLog.modeBeforeZoom
            ELSE /\ viewer'.viewerMode = "zoom"
                 /\ viewer'.zoomLevel = ZoomEntry
                 /\ viewer'.panOffset = Origin]_vars

\* the viewer state without the notice and its timeouts
ViewerCore(v) ==
  [viewerMode |-> v.viewerMode, baseViewerMode |-> v.baseViewerMode,
   zoomLevel |-> v.zoomLevel, panOffset |-> v.panOffset,
   isPanning |-> v.isPanning, panStart |-> v.panStart]

\* C15: after the displayed image changes, the mode, the remembered base mode,
\* the zoom level, the pan offset, isPanning and the recorded start of the pan
\* gesture equal those of a freshly opened viewer.
C15_ImageChangeResetsEverything ==
  [][viewerLog'.event = "imageChange" => ViewerCore(viewer') = ViewerCore(ViewerInitial)]_vars

ModeMessages == {VIEWER_MODE_MESSAGES(mode) : mode \in ViewerModes}

\* C16: every mode change other than the wheel's entry into zoom shows a notice
\* naming the new mode; the notice stays displayed until the timeout started
\* with it fires (2 seconds after the mode change) unless a later notice
\* replaces it, and when that timeout fires with no later notice, no notice is
\* displayed.
C16_ModeNoticeLastsTwoSeconds ==
  /\ [][viewerLog'.event \in {"cycle", "toggleZoom"}
          => viewer'.lightboxNotice = VIEWER_MODE_MESSAGES(viewer'.viewerMode)]_vars
  /\ []((/\ viewerLog.noticeTimer > 0
          /\ viewer.timers[viewerLog.noticeTimer] \in ModeMessages)
          => viewer.lightboxNotice = viewer.timers[viewerLog.noticeTimer])
  /\ [][(viewerLog'.event = "timeout" /\ viewerLog.noticeTimer = 1)
          => viewer'.lightboxNotice = NoNotice]_vars

\* C17: when sharing fails the failure notice is shown, and it is transient:
\* once the user stops acting and only timeouts fire, it does not stay
\* displayed for ever.
C17_ShareFailureNoticeIsTransient ==
  /\ [][viewerLog'.event = "shareFailed" => viewer'.lightboxNotice = "Unable to share"]_vars
  /\ (<>[][viewerLog'.event = "timeout"]_vars)
       => []<>(viewer.lightboxNotice # "Unable to share")

\* C24: a wheel event in frame or fill mode sets the mode to zoom without showing
\* or changing a notice and leaves the zoom level one step above the entry level
\* 1.5 for scroll up (1.75), one step below it for scroll down (1.25), pan (0,0).
C24_WheelEntersZoomWithFirstStep ==
  [][(viewerLog'.event \in {"wheelUp", "wheelDown"} /\ viewer.viewerMode # "zoom") =>
       /\ viewer'.viewerMode = "zoom"
       /\ viewer'.lightboxNotice = viewer.lightboxNotice
       /\ viewer'.timers = viewer.timers
       /\ viewer'.zoomLevel = IF viewerLog'.event = "wheelUp" THEN ZoomEntry + ZOOM_STEP
                              ELSE ZoomEntry - ZOOM_STEP
       /\ viewer'.panOffset = Origin]_vars

C26_PanningOnlyInZoom ==
  /\ [](viewer.isPanning => viewer.viewerMode = "zoom")
  /\ [](viewer.isPanning <=> viewer.panStart.set)
  /\ [][(\/ /\ viewerLog'.event \in {"pointerDown", "pointerMove", "pointerUp"}
             /\ viewer.viewerMode # "zoom"
          \/ /\ viewerLog'.event \in {"pointerMove", "pointerUp"}
             /\ viewerLog'.foreign)
         => /\ viewer'.viewerMode = viewer.viewerMode
            /\ viewer'.zoomLevel = viewer.zoomLevel
            /\ viewer'.panOffset = viewer.panOffset]_vars

\* a second pointer has moved while the first one holds a panned image
C26_Witness ==
  /\ viewerLog.event = "pointerMove"
  /\ viewerLog.foreign
  /\ viewer.isPanning
  /\ viewer.panOffset # Origin

(* ===================== preview: rename and delete ===================== *)
\* previewImage = null
NoImage == 0

NoMessage == "null"

\* filteredImages of App, with no folder chosen (activeFolder = ALL_FOLDERS)
filteredImages ==
  IF activeView = "favorites"
    THEN SelectSeq(gallery.items, LAMBDA image : image \in Range(favorites))
    ELSE gallery.items

\* filteredImages.findIndex((image) => image.id === id), counted from 0
FindImage(id) ==
  IF \E i \in 1..Len(filteredImages) : filteredImages[i] = id
    THEN (CHOOSE i \in 1..Len(filteredImages) :
            /\ filteredImages[i] = id
            /\ \A j \in 1..(i - 1) : filteredImages[j] # id) - 1
    ELSE -1

previewIndex == IF previewImage = NoImage THEN -1 ELSE FindImage(previewImage)

previewHasPrev == previewIndex > 0

previewHasNext == previewIndex >= 0 /\ previewIndex < Len(filteredImages) - 1

\* the states of App and Lightbox about rename and delete, as first rendered
InitialMutation ==
  [renameError |-> NoMessage, deleteError |-> NoMessage,
   renamePending |-> FALSE, deletePending |-> FALSE,
   isRenaming |-> FALSE, confirmDelete |-> FALSE]

InitialPreviewLog == [event |-> "none"]

\* the effect of [previewImage] in App and the effect of [image] in Lightbox
PreviewEffect(m) ==
  [m EXCEPT !.renameError = NoMessage, !.deleteError = NoMessage,
            !.isRenaming = FALSE, !.confirmDelete = FALSE]

\* a sequence without its i-th element
Without(s, i) == SubSeq(s, 1, i - 1) \o SubSeq(s, i + 1, Len(s))

\* onSelect of the grid: setPreviewImage(image)
openPreview(image) ==
  /\ previewImage = NoImage
  /\ \E i \in 1..Len(filteredImages) : filteredImages[i] = image
  /\ previewImage' = image
  /\ mutation' = PreviewEffect(mutation)
  /\ previewLog' = [event |-> "open"]
  /\ UNCHANGED <<gvars, fvars, lvars, tvars, svars, hvars, calls, trashed>>

\* onClose: setPreviewImage(null)
closePreview ==
  /\ previewImage # NoImage
  /\ previewImage' = NoImage
  /\ mutation' = PreviewEffect(mutation)
  /\ previewLog' = [event |-> "close"]
  /\ UNCHANGED <<gvars, fvars, lvars, tvars, svars, hvars, calls, trashed>>

showPreviousImage ==
  /\ previewHasPrev
  /\ previewImage' = filteredImages[previewIndex]
  /\ mutation' = PreviewEffect(mutation)
  /\ previewLog' = [event |-> "previous"]
  /\ UNCHANGED <<gvars, fvars, lvars, tvars, svars, hvars, calls, trashed>>

showNextImage ==
  /\ previewHasNext
  /\ previewImage' = filteredImages[previewIndex + 2]
  /\ mutation' = PreviewEffect(mutation)
  /\ previewLog' = [event |-> "next"]
  /\ UNCHANGED <<gvars, fvars, lvars, tvars, svars, hvars, calls, trashed>>

\* the Rename button of the Lightbox
toggleRenameForm ==
  /\ previewImage # NoImage
  /\ mutation' = [mutation EXCEPT !.isRenaming = ~@, !.confirmDelete = FALSE]
  /\ previewLog' = [event |-> "renameForm"]
  /\ UNCHANGED <<gvars, fvars, lvars, tvars, svars, hvars, previewImage, calls, trashed>>

\* the Trash button of the Lightbox
toggleTrashConfirm ==
  /\ previewImage # NoImage
  /\ ~mutation.deletePending
  /\ mutation' = [mutation EXCEPT !.confirmDelete = ~@, !.isRenaming = FALSE]
  /\ previewLog' = [event |-> "trashConfirm"]
  /\ UNCHANGED <<gvars, fvars, lvars, tvars, svars, hvars, previewImage, calls, trashed>>

\* handleRenameSubmit with a non-empty draft, up to `await onRename(...)`
handleRenameSubmit ==
  /\ previewImage # NoImage
  /\ mutation.isRenaming
  /\ ~mutation.renamePending
  /\ Len(calls) < MaxCalls
  /\ calls' = Append(calls, [kind |-> "rename", image |-> previewImage,
                              fallbackPreview |-> NoImage])
  /\ previewLog' = [event |-> "renameSubmit"]
  /\ UNCHANGED <<gvars, fvars, lvars, tvars, svars, hvars, previewImage, mutation, trashed>>

\* handleDeleteImage, up to `await onDelete(image)`; the closure of onDelete
\* holds previewIndex and filteredImages of this render
handleDeleteImage ==
  /\ previewImage # NoImage
  /\ mutation.confirmDelete
  /\ ~mutation.deletePending
  /\ Len(calls) < MaxCalls
  /\ calls' = Append(calls, [kind |-> "delete", image |-> previewImage,
                              fallbackPreview |-> IF previewHasNext
                                                    THEN filteredImages[previewIndex + 2]
                                                    ELSE NoImage])
  /\ previewLog' = [event |-> "deleteConfirm"]
  /\ UNCHANGED <<gvars, fvars, lvars, tvars, svars, hvars, previewImage, mutation, trashed>>

\* renameImageRequest resolves: setPreviewImage(updated), refreshGallery(),
\* then setIsRenaming(false) in the Lightbox
RenameResolve(i) ==
  /\ i \in 1..Len(calls)
  /\ calls[i].kind = "rename"
  /\ galleryVersion < MaxRefresh
  /\ previewImage' = calls[i].image
  /\ mutation' = PreviewEffect(mutation)
  /\ galleryVersion' = galleryVersion + 1
  /\ calls' = Without(calls, i)
  /\ previewLog' = [event |-> "renameResolved"]
  /\ UNCHANGED <<fvars, lvars, tvars, svars, hvars, serverTotal, gallery, effectVersion, gen, trashed>>

\* renameImageRequest rejects: onRename rethrows and the catch of
\* handleRenameSubmit does nothing
RenameReject(i) ==
  /\ i \in 1..Len(calls)
  /\ calls[i].kind = "rename"
  /\ calls' = Without(calls, i)
  /\ previewLog' = [event |-> "renameRejected"]
  /\ UNCHANGED <<gvars, fvars, lvars, tvars, svars, hvars, previewImage, mutation, trashed>>

\* deleteImageRequest resolves: setPreviewImage(fallbackPreview),
\* refreshGallery(), then setConfirmDelete(false) in the Lightbox
DeleteResolve(i) ==
  /\ i \in 1..Len(calls)
  /\ calls[i].kind = "delete"
  /\ galleryVersion < MaxRefresh
  /\ trashed' = trashed \cup {calls[i].image}
  /\ previewImage' = calls[i].fallbackPreview
  /\ mutation' = [(IF calls[i].fallbackPreview # previewImage
                     THEN PreviewEffect(mutation) ELSE mutation)
                  EXCEPT !.confirmDelete = FALSE]
  /\ galleryVersion' = galleryVersion + 1
  /\ calls' = Without(calls, i)
  /\ previewLog' = [event |-> "deleteResolved"]
  /\ UNCHANGED <<fvars, lvars, tvars, svars, hvars, serverTotal, gallery, effectVersion, gen>>

\* deleteImageRequest rejects: onDelete rethrows and the catch of
\* handleDeleteImage does nothing
DeleteReject(i) ==
  /\ i \in 1..Len(calls)
  /\ calls[i].kind = "delete"
  /\ calls' = Without(calls, i)
  /\ previewLog' = [event |-> "deleteRejected"]
  /\ UNCHANGED <<gvars, fvars, lvars, tvars, svars, hvars, previewImage, mutation, trashed>>

\* the favorite button of the Lightbox, or of a tile of the grid while the
\* Lightbox is closed: toggleFavorite(target.id)
toggleFavoriteWrapper(target) ==
  /\ IF previewImage # NoImage
       THEN target = previewImage
       ELSE \E i \in 1..Len(filteredImages) : filteredImages[i] = target
  /\ toggleFavorite(target)

PreviewNext ==
  \/ \E image \in 1..MaxShown : openPreview(image)
  \/ closePreview
  \/ showPreviousImage
  \/ showNextImage
  \/ toggleRenameForm
  \/ toggleTrashConfirm
  \/ handleRenameSubmit
  \/ handleDeleteImage
  \/ \E i \in 1..MaxCalls : RenameResolve(i)
  \/ \E i \in 1..MaxCalls : RenameReject(i)
  \/ \E i \in 1..MaxCalls : DeleteResolve(i)
  \/ \E i \in 1..MaxCalls : DeleteReject(i)

(* ------------------- claims: preview rename and delete ----------------- *)
\* C18: when an image rename or delete request fails, the renameError or
\* deleteError given to the Lightbox becomes non-null, the previewed image
\* stays the same, no gallery refresh is triggered and no request is issued
\* in its place.
C18_MutationFailureIsSurfaced ==
  [][(previewLog'.event \in {"renameRejected", "deleteRejected"})
       => /\ previewLog'.event = "renameRejected" => mutation'.renameError # NoMessage
          /\ previewLog'.event = "deleteRejected" => mutation'.deleteError # NoMessage
          /\ previewImage' = previewImage
          /\ galleryVersion' = galleryVersion
          /\ Len(calls') = Len(calls) - 1]_vars

\* C28: whenever the lightbox is open the previewed image is an element of the
\* filtered list, i.e. previewIndex lies in 0..filteredImages.length-1, whatever
\* favorite toggles, navigation, renames, deletes and refreshes came before.
C28_PreviewIsInFilteredList ==
  previewImage # NoImage => previewIndex \in 0..(Len(filteredImages) - 1)

(* ============================== useTimeline =========================== *)
\* days from 1970-01-01 to the civil date year-month-day (proleptic Gregorian)
DaysFromCivil(year, month, day) ==
  LET y   == IF month <= 2 THEN year - 1 ELSE year
      era == y \div 400
      yoe == y - era * 400
      mp  == IF month > 2 THEN month - 3 ELSE month + 9
      doy == (153 * mp + 2) \div 5 + day - 1
      doe == yoe * 365 + yoe \div 4 - yoe \div 100 + doy
  IN  era * 146097 + doe - 719468

\* the civil date of a number of days from 1970-01-01
CivilFromDays(days) ==
  LET z   == days + 719468
      era == z \div 146097
      doe == z - era * 146097
      yoe == (doe - doe \div 1460 + doe \div 36524 - doe \div 146096) \div 365
      doy == doe - (365 * yoe + yoe \div 4 - yoe \div 100)
      mp  == (5 * doy + 2) \div 153
      d   == doy - (153 * mp + 2) \div 5 + 1
      m   == IF mp < 10 THEN mp + 3 ELSE mp - 9
      y   == yoe + era * 400 + (IF m <= 2 THEN 1 ELSE 0)
  IN  [year |-> y, month |-> m, day |-> d]

\* a time, in hours from 1970-01-01T00:00Z
Instant(year, month, day, hour) == DaysFromCivil(year, month, day) * 24 + hour

\* values of modified_at, as the times new Date(image.modified_at) gives
ImageTimes ==
  { Instant(2023, 12, 31, 2), Instant(2023, 12, 31, 22), Instant(2024, 1, 1, 2),
    Instant(2024, 1, 31, 22), Instant(2024, 2, 1, 2), Instant(2024, 2, 1, 12) }

\* local time minus UTC, in hours
Offsets == {-MaxOffset, 0, MaxOffset}

\* getFullYear(), getMonth() + 1 and getDate() of a Date in the local zone
LocalDate(time, offset) == CivilFromDays((time + offset) \div 24)

\* `${getFullYear()}-${month padded}-${day padded}`: the key names a date
DayKey(time, offset) == LocalDate(time, offset)

\* new Date(key) for a key 'YYYY-MM-DD': a date-only text is read as UTC
ParseDay(key) == Instant(key.year, key.month, key.day, 0)

\* `${getFullYear()}-${month padded}`
MonthKey(time, offset) ==
  [year |-> LocalDate(time, offset).year, month |-> LocalDate(time, offset).month]

\* place of a month key in the order of localeCompare
MonthRank(key) == key.year * 12 + key.month

\* the Map of day keys to images built by images.forEach, as the sequence of
\* its entries in insertion order
RECURSIVE GroupByDay(_, _)
GroupByDay(images, offset) ==
  IF images = <<>> THEN <<>>
  ELSE LET n      == Len(images)
           groups == GroupByDay(SubSeq(images, 1, n - 1), offset)
           dayKey == DayKey(images[n], offset)
       IN  IF \E i \in 1..Len(groups) : groups[i].key = dayKey
             THEN [i \in 1..Len(groups) |->
                     IF groups[i].key = dayKey
                       THEN [groups[i] EXCEPT !.images = Append(@, images[n])]
                       ELSE groups[i]]
             ELSE Append(groups, [key |-> dayKey, images |-> <<images[n]>>])

\* Array.prototype.sort with a comparator that puts larger ranks first; rank[i]
\* is the rank of s[i] and elements of equal rank keep their order
SortDescending(s, rank) ==
  LET n == Len(s)
      place(i) == 1 + Cardinality({j \in 1..n : \/ rank[j] > rank[i]
                                                 \/ (rank[j] = rank[i] /\ j < i)})
  IN  [p \in 1..n |-> s[CHOOSE i \in 1..n : place(i) = p]]

\* the group object made of an entry of the Map
MakeGroup(entry, offset) ==
  LET date == ParseDay(entry.key)
  IN  [key |-> entry.key, date |-> date,
       dayLabel |-> LocalDate(date, offset).day,
       monthLabel |-> LocalDate(date, offset).month,
       yearLabel |-> LocalDate(date, offset).year,
       images |-> entry.images, count |-> Len(entry.images),
       isNewMonth |-> FALSE, isNewYear |-> FALSE]

\* variant of MarkGroups that marks a new year without marking a new month
MarkGroups_YearWithoutMonth(sortedGroups, offset) ==
  [i \in 1..Len(sortedGroups) |->
     LET current == sortedGroups[i]
     IN  IF i = 1 \/ LocalDate(current.date, offset).year
                       # LocalDate(sortedGroups[i - 1].date, offset).year
           THEN [current EXCEPT !.isNewYear = TRUE]
         ELSE IF LocalDate(current.date, offset).month
                   # LocalDate(sortedGroups[i - 1].date, offset).month
           THEN [current EXCEPT !.isNewMonth = TRUE]
         ELSE current]

\* the loop that marks new months and years
MarkGroups(sortedGroups, offset) ==
  [i \in 1..Len(sortedGroups) |->
     LET current == sortedGroups[i]
     IN  IF i = 1 \/ LocalDate(current.date, offset).year
                       # LocalDate(sortedGroups[i - 1].date, offset).year
           THEN [current EXCEPT !.isNewYear = TRUE, !.isNewMonth = TRUE]
         ELSE IF LocalDate(current.date, offset).month
                   # LocalDate(sortedGroups[i - 1].date, offset).month
           THEN [current EXCEPT !.isNewMonth = TRUE]
         ELSE current]

\* the memo timelineGroups
TimelineGroups(images, offset) ==
  LET entries == GroupByDay(images, offset)
      groups  == [i \in 1..Len(entries) |-> MakeGroup(entries[i], offset)]
  IN  MarkGroups(SortDescending(groups, [i \in 1..Len(groups) |-> groups[i].date]), offset)

\* the Map of month keys to counts built by timelineGroups.forEach, as the
\* sequence of its entries in insertion order
RECURSIVE CountByMonth(_, _)
CountByMonth(groups, offset) ==
  IF groups = <<>> THEN <<>>
  ELSE LET n        == Len(groups)
           months   == CountByMonth(SubSeq(groups, 1, n - 1), offset)
           monthKey == MonthKey(groups[n].date, offset)
       IN  IF \E i \in 1..Len(months) : months[i].key = monthKey
             THEN [i \in 1..Len(months) |->
                     IF months[i].key = monthKey
                       THEN [months[i] EXCEPT !.count = @ + groups[n].count]
                       ELSE months[i]]
             ELSE Append(months, [key |-> monthKey, count |-> groups[n].count])

\* the memo monthGroups
MonthGroups(groups, offset) ==
  LET months == CountByMonth(groups, offset)
  IN  SortDescending(months, [i \in 1..Len(months) |-> MonthRank(months[i].key)])

\* what useTimeline(images) returns
TimelineOf(images, offset) ==
  LET groups == TimelineGroups(images, offset)
  IN  [timelineGroups |-> groups, monthGroups |-> MonthGroups(groups, offset)]

\* useTimeline is rendered with a list of images, each given by its
\* modified_at
useTimeline(images) ==
  /\ Len(images) <= MaxImages
  /\ timelineInput' = [timelineInput EXCEPT !.images = images]
  /\ timelineResult' = TimelineOf(images, timelineInput.offset)
  /\ UNCHANGED <<gvars, fvars, lvars, pvars, svars, hvars>>

\* the list grows by an image
TimelineNext == \E time \in ImageTimes : useTimeline(Append(timelineInput.images, time))

(* ---------------------------- claims: timeline ------------------------- *)
\* the sum of the count fields of a sequence of records
RECURSIVE SumCounts(_)
SumCounts(s) == IF s = <<>> THEN 0 ELSE s[1].count + SumCounts(Tail(s))

\* C19: the groups returned by the timeline grouper are sorted by date
\* descending; a group's isNewYear is true exactly when it is the first group
\* or its year differs from the year of the group before it, and its
\* isNewMonth is true exactly when isNewYear is true or its month differs from
\* the month of the group before it.
C19_GroupFlags ==
  LET groups == timelineResult.timelineGroups
  IN  \A i \in 1..Len(groups) :
        /\ i > 1 => groups[i - 1].date > groups[i].date
        /\ groups[i].isNewYear
             <=> (i = 1 \/ groups[i].yearLabel # groups[i - 1].yearLabel)
        /\ groups[i].isNewMonth
             <=> (groups[i].isNewYear \/ groups[i].monthLabel # groups[i - 1].monthLabel)

\* three groups came out: the second starts a month of the same year and the
\* third starts a year
C19_Witness ==
  LET groups == timelineResult.timelineGroups
  IN  /\ Len(groups) = 3
      /\ groups[2].isNewMonth /\ ~groups[2].isNewYear
      /\ groups[3].isNewYear /\ groups[3].isNewMonth

\* C20: month buckets are sorted strictly descending by their key; the count
\* of a bucket is the sum of the counts of the day groups whose day key lies in
\* that month; the counts of all buckets sum to the number of images; in every
\* time zone.
C20_MonthBuckets ==
  LET groups == timelineResult.timelineGroups
      months == timelineResult.monthGroups
      inMonth(key) == SelectSeq(groups, LAMBDA g : g.key.year = key.year
                                                  /\ g.key.month = key.month)
  IN  /\ \A i \in 2..Len(months) : MonthRank(months[i - 1].key) > MonthRank(months[i].key)
      /\ \A i \in 1..Len(months) : months[i].count = SumCounts(inMonth(months[i].key))
      /\ SumCounts(months) = Len(timelineInput.images)

(* ========================= shell: views and people ===================== *)
\* the keys SidebarNav hands to setActiveView
ViewKeys == {"all", "timeline", "faces", "memories", "albums", "favorites", "videos", "imports"}

\* the keys useViewRouting has a case for
KnownViews == {"all", "faces", "favorites", "timeline", "memories"}

viewTitle(view) ==
  CASE view = "all" -> "All Photos"
    [] view = "faces" -> "People"
    [] view = "favorites" -> "Favorites"
    [] view = "timeline" -> "Timeline"
    [] view = "memories" -> "Memories"
    [] OTHER -> "All Photos"

viewSubtitle(view) ==
  CASE view = "all" -> "Seamlessly browse every asset in your shared folder"
    [] view = "faces" -> "Browse discovered people clusters"
    [] view = "favorites" -> "All the images you loved in one dedicated board"
    [] view = "timeline" -> ""
    [] view = "memories" -> "Smart collections curated by events, places, and people"
    [] OTHER -> "Feature coming soon"

\* the faces view shows the grid as well
useViewRouting_GridInFaces(view) ==
  [viewTitle |-> viewTitle(view),
   viewSubtitle |-> viewSubtitle(view),
   isFavoritesView |-> view = "favorites",
   isTimelineView |-> view = "timeline",
   showGrid |-> view \in {"all", "favorites", "timeline", "faces"},
   showFaces |-> view = "faces"]

useViewRouting(view) ==
  LET isFavoritesView == view = "favorites"
      isTimelineView == view = "timeline"
  IN [viewTitle |-> viewTitle(view),
      viewSubtitle |-> viewSubtitle(view),
      isFavoritesView |-> isFavoritesView,
      isTimelineView |-> isTimelineView,
      showGrid |-> view = "all" \/ isFavoritesView \/ isTimelineView,
      showFaces |-> view = "faces"]

PersonIds == 1..MaxPersons

NoPerson == 0

InitialPersons == [items |-> {}, loading |-> FALSE, error |-> NoError]

\* the values the effects of the shell depend on
Deps(view, version, items, selected) ==
  [mounted |-> TRUE, activeView |-> view, personsVersion |-> version,
   items |-> items, selectedPersonId |-> selected]

NoDeps == [mounted |-> FALSE, activeView |-> "all", personsVersion |-> 0,
           items |-> {}, selectedPersonId |-> NoPerson]

InitialShellLog == [created |-> NoPerson, reload |-> "none"]

InitialShell ==
  [effectDeps |-> NoDeps, load |-> "none", requests |-> <<>>, nextId |-> 1,
   showCreatePersonDialog |-> FALSE, deletingPerson |-> NoPerson,
   mergingPerson |-> NoPerson, mergeTargetId |-> NoPerson, log |-> InitialShellLog]

\* an effect of the last render has not run yet
EffectsPending == shell.effectDeps # Deps(activeView, personsVersion, persons.items, selectedPersonId)

activePerson == IF selectedPersonId \in persons.items THEN selectedPersonId ELSE NoPerson

\* a dialog is shown: its overlay covers the sidebar and the faces view
DialogOpen ==
  \/ shell.showCreatePersonDialog
  \/ shell.deletingPerson # NoPerson
  \/ shell.mergingPerson # NoPerson

\* why the selection effect clears the selection, "none" if it does not
ClearReason(view, items, selected) ==
  CASE view # "faces" -> "view"
    [] view = "faces" /\ items = {} -> "empty"
    [] view = "faces" /\ items # {} /\ selected # NoPerson /\ selected \notin items -> "removed"
    [] OTHER -> "none"

\* the selection survives the removal of the selected person
SelectionEffect_KeepsRemoved(view, items, selected) ==
  IF ClearReason(view, items, selected) \in {"view", "empty"} THEN NoPerson ELSE selected

SelectionEffect(view, items, selected) ==
  IF ClearReason(view, items, selected) # "none" THEN NoPerson ELSE selected

\* what the log keeps of the last create once the user selects or leaves
Forget(log) == [log EXCEPT !.created = NoPerson, !.reload = "none"]

\* the passive effects of one render: the persons load effect, then the selection effect
ShellEffects ==
  /\ EffectsPending
  /\ LET seen == shell.effectDeps
         loadRuns == \/ ~seen.mounted
                     \/ seen.activeView # activeView
                     \/ seen.personsVersion # personsVersion
         selectRuns == \/ ~seen.mounted
                       \/ seen.activeView # activeView
                       \/ seen.items # persons.items
                       \/ seen.selectedPersonId # selectedPersonId
         starts == loadRuns /\ activeView = "faces"
     IN /\ persons' = IF starts THEN [persons EXCEPT !.loading = TRUE, !.error = NoError]
                      ELSE persons
        /\ selectedPersonId' = IF selectRuns
                               THEN SelectionEffect(activeView, persons.items, selectedPersonId)
                               ELSE selectedPersonId
        /\ shell' = [shell EXCEPT
             !.effectDeps = Deps(activeView, personsVersion, persons.items, selectedPersonId),
             !.load = IF starts THEN "pending" ELSE IF loadRuns THEN "none" ELSE @,
             !.log = [@ EXCEPT
               !.reload = IF starts /\ @ = "created" THEN "pending"
                          ELSE IF loadRuns /\ @ = "pending" THEN "none" ELSE @]]
  /\ UNCHANGED <<gvars, fvars, lvars, pvars, tvars, hvars, activeView, viewRouting, personsVersion, people>>

\* fetchPersons of the live run of the load effect answers
PersonsResolve ==
  /\ ~EffectsPending
  /\ shell.load = "pending"
  /\ persons' = [items |-> people, loading |-> FALSE, error |-> NoError]
  /\ shell' = [shell EXCEPT !.load = "none",
                            !.log = [@ EXCEPT !.reload = IF @ = "pending" THEN "done" ELSE @]]
  /\ UNCHANGED <<gvars, fvars, lvars, pvars, tvars, hvars, activeView, viewRouting,
                 selectedPersonId, personsVersion, people>>

PersonsReject ==
  /\ ~EffectsPending
  /\ shell.load = "pending"
  /\ persons' = [persons EXCEPT !.loading = FALSE, !.error = "Request failed with status 500"]
  /\ shell' = [shell EXCEPT !.load = "none",
                            !.log = [@ EXCEPT !.reload = IF @ = "pending" THEN "failed" ELSE @]]
  /\ UNCHANGED <<gvars, fvars, lvars, pvars, tvars, hvars, activeView, viewRouting,
                 selectedPersonId, personsVersion, people>>

setActiveView(key) ==
  /\ ~EffectsPending /\ ~DialogOpen
  /\ activeView' = key
  /\ viewRouting' = useViewRouting(key)
  /\ shell' = [shell EXCEPT !.log = Forget(@)]
  /\ UNCHANGED <<gvars, fvars, lvars, pvars, tvars, hvars, persons, selectedPersonId,
                 personsVersion, people>>

\* PersonGrid onSelect, in the people overview
selectPerson(id) ==
  /\ ~EffectsPending /\ ~DialogOpen
  /\ viewRouting.showFaces /\ activePerson = NoPerson
  /\ id \in persons.items
  /\ selectedPersonId' = id
  /\ shell' = [shell EXCEPT !.log = Forget(@)]
  /\ UNCHANGED <<gvars, fvars, lvars, pvars, tvars, hvars, activeView, viewRouting, persons,
                 personsVersion, people>>

\* the Back button of the person detail view
clearSelection ==
  /\ ~EffectsPending /\ ~DialogOpen
  /\ viewRouting.showFaces /\ activePerson # NoPerson
  /\ selectedPersonId' = NoPerson
  /\ shell' = [shell EXCEPT !.log = Forget(@)]
  /\ UNCHANGED <<gvars, fvars, lvars, pvars, tvars, hvars, activeView, viewRouting, persons,
                 personsVersion, people>>

ShellDialog(next) ==
  /\ ~EffectsPending
  /\ shell' = next
  /\ UNCHANGED <<gvars, fvars, lvars, pvars, tvars, hvars, activeView, viewRouting, persons,
                 selectedPersonId, personsVersion, people>>

openCreatePersonDialog ==
  /\ ~DialogOpen
  /\ viewRouting.showFaces /\ activePerson = NoPerson
  /\ ShellDialog([shell EXCEPT !.showCreatePersonDialog = TRUE])

\* the overlay or the Cancel button of the dialog that is open
closeDialog ==
  /\ DialogOpen
  /\ ShellDialog([shell EXCEPT !.showCreatePersonDialog = FALSE, !.deletingPerson = NoPerson,
                               !.mergingPerson = NoPerson, !.mergeTargetId = NoPerson])

\* a request in flight and what its continuation has captured
Request(kind, person, target, selected) ==
  [kind |-> kind, person |-> person, target |-> target, selectedPersonId |-> selected]

\* a name has been typed into the dialog
handleCreatePerson ==
  /\ shell.showCreatePersonDialog
  /\ Len(shell.requests) < MaxRequests
  /\ ShellDialog([shell EXCEPT !.requests = Append(@, Request("create", NoPerson, NoPerson, NoPerson))])

handleDeletePerson ==
  /\ ~DialogOpen
  /\ viewRouting.showFaces /\ activePerson # NoPerson
  /\ ShellDialog([shell EXCEPT !.deletingPerson = activePerson])

handleConfirmDelete ==
  /\ shell.deletingPerson # NoPerson
  /\ Len(shell.requests) < MaxRequests
  /\ ShellDialog([shell EXCEPT
       !.requests = Append(@, Request("delete", shell.deletingPerson, NoPerson, selectedPersonId))])

handleMergePerson ==
  /\ ~DialogOpen
  /\ viewRouting.showFaces /\ activePerson # NoPerson
  /\ ShellDialog([shell EXCEPT !.mergingPerson = activePerson, !.mergeTargetId = NoPerson])

\* the select of the merge dialog
setMergeTargetId(id) ==
  /\ shell.mergingPerson # NoPerson
  /\ id \in persons.items \ {shell.mergingPerson}
  /\ ShellDialog([shell EXCEPT !.mergeTargetId = id])

handleConfirmMerge ==
  /\ shell.mergingPerson # NoPerson /\ shell.mergeTargetId # NoPerson
  /\ Len(shell.requests) < MaxRequests
  /\ ShellDialog([shell EXCEPT
       !.requests = Append(@, Request("merge", shell.mergingPerson, shell.mergeTargetId, NoPerson))])

\* request i is of this kind and it is the shell's turn
Answered(i, kind) ==
  /\ ~EffectsPending
  /\ i \in 1..Len(shell.requests)
  /\ shell.requests[i].kind = kind

CreatePersonResolve(i) ==
  /\ Answered(i, "create")
  /\ shell.nextId \in PersonIds
  /\ personsVersion < MaxReloads
  /\ people' = people \cup {shell.nextId}
  /\ personsVersion' = personsVersion + 1
  /\ selectedPersonId' = shell.nextId
  /\ shell' = [shell EXCEPT
       !.requests = Without(@, i),
       !.nextId = @ + 1,
       !.showCreatePersonDialog = FALSE,
       !.log = [created |-> IF activeView = "faces" THEN shell.nextId ELSE NoPerson,
                reload |-> IF activeView = "faces" THEN "created" ELSE "none"]]
  /\ UNCHANGED <<gvars, fvars, lvars, pvars, tvars, hvars, activeView, viewRouting, persons>>

\* the alert of the catch branch changes nothing
PersonRequestReject(i) ==
  /\ ~EffectsPending
  /\ i \in 1..Len(shell.requests)
  /\ ShellDialog([shell EXCEPT !.requests = Without(@, i)])

DeletePersonResolve(i) ==
  /\ Answered(i, "delete")
  /\ shell.requests[i].person \in people
  /\ personsVersion < MaxReloads
  /\ people' = people \ {shell.requests[i].person}
  /\ personsVersion' = personsVersion + 1
  /\ selectedPersonId' = IF shell.requests[i].selectedPersonId = shell.requests[i].person
                         THEN NoPerson ELSE selectedPersonId
  /\ shell' = [shell EXCEPT !.requests = Without(@, i), !.deletingPerson = NoPerson]
  /\ UNCHANGED <<gvars, fvars, lvars, pvars, tvars, hvars, activeView, viewRouting, persons>>

MergePersonsResolve(i) ==
  /\ Answered(i, "merge")
  /\ {shell.requests[i].person, shell.requests[i].target} \subseteq people
  /\ personsVersion < MaxReloads
  /\ people' = people \ {shell.requests[i].person}
  /\ personsVersion' = personsVersion + 1
  /\ selectedPersonId' = shell.requests[i].target
  /\ shell' = [shell EXCEPT !.requests = Without(@, i), !.mergingPerson = NoPerson,
                            !.mergeTargetId = NoPerson, !.log = Forget(@)]
  /\ UNCHANGED <<gvars, fvars, lvars, pvars, tvars, hvars, activeView, viewRouting, persons>>

\* the sidebar and the people overview: every view, the persons load, the selection
ViewsNext ==
  \/ ShellEffects
  \/ PersonsResolve
  \/ PersonsReject
  \/ \E key \in ViewKeys : setActiveView(key)
  \/ \E id \in PersonIds : selectPerson(id)
  \/ clearSelection

\* the views of a user who moves between the grid of all photos and the people
PeopleViews == {"all", "faces"}

\* the people of the faces view: selection, dialogs and requests
ShellNext ==
  \/ ShellEffects
  \/ PersonsResolve
  \/ PersonsReject
  \/ \E key \in PeopleViews : setActiveView(key)
  \/ \E id \in PersonIds : selectPerson(id)
  \/ clearSelection
  \/ openCreatePersonDialog
  \/ closeDialog
  \/ handleCreatePerson
  \/ handleDeletePerson
  \/ handleConfirmDelete
  \/ handleMergePerson
  \/ \E id \in PersonIds : setMergeTargetId(id)
  \/ handleConfirmMerge
  \/ \E i \in 1..MaxRequests : CreatePersonResolve(i)
  \/ \E i \in 1..MaxRequests : PersonRequestReject(i)
  \/ \E i \in 1..MaxRequests : DeletePersonResolve(i)
  \/ \E i \in 1..MaxRequests : MergePersonsResolve(i)

(* --------------------- claims: shell views and people ------------------ *)
\* C21: for every view key, known to useViewRouting or not, showGrid is true exactly
\* for all, favorites and timeline, showFaces exactly for faces, never both; a key
\* without a case gets the default title and subtitle and neither flag.
C21_ViewFlags ==
  /\ viewRouting.showGrid <=> activeView \in {"all", "favorites", "timeline"}
  /\ viewRouting.showFaces <=> activeView = "faces"
  /\ ~(viewRouting.showGrid /\ viewRouting.showFaces)
  /\ activeView \notin KnownViews =>
       /\ viewRouting.viewTitle = "All Photos"
       /\ viewRouting.viewSubtitle = "Feature coming soon"
       /\ ~viewRouting.showGrid /\ ~viewRouting.showFaces

\* an unknown key has been routed
C21_Witness == activeView = "imports" /\ viewRouting.viewTitle = "All Photos"

\* C29: whenever no effect of the shell is pending, a selected person means that
\* the faces view is shown and that persons.items holds a person with that id; and
\* the effects clear the selection when the view is not faces, when the list is
\* empty and when the list no longer holds the selected person.
C29_SelectionIsAListedPerson ==
  /\ [](~EffectsPending /\ selectedPersonId # NoPerson =>
         activeView = "faces" /\ selectedPersonId \in persons.items)
  /\ [][(/\ shell'.effectDeps # shell.effectDeps
          /\ \/ activeView # "faces"
             \/ persons.items = {}
             \/ selectedPersonId \notin persons.items)
         => selectedPersonId' = NoPerson]_vars

\* the effects have cleared the selection of a person the list does not hold:
\* the person just created, selected by handleCreatePerson
C29_Witness ==
  /\ shell.log.created # NoPerson
  /\ shell.log.created \notin persons.items
  /\ selectedPersonId = NoPerson
  /\ ~EffectsPending
  /\ activeView = "faces" /\ persons.items # {}

\* C30: once createPerson has succeeded in the faces view and the reload of the
\* person list it triggers has succeeded, the new person is the selected one,
\* unless the user selected a person or changed the view in between.
C30_CreatedPersonIsSelected ==
  (/\ shell.log.created # NoPerson
   /\ shell.log.reload = "done"
   /\ ~EffectsPending)
  => selectedPersonId = shell.log.created

(* ============================= useImageViewer ========================== *)
\* zoom in hundredths as in the Lightbox, pan and pointer positions in pixels
maxPan == 200

ImageViewerInitial ==
  [viewerMode |-> "frame", zoomLevel |-> ZoomOne, panOffset |-> Origin, isPanning |-> FALSE,
   pointerStart |-> Origin, panStart |-> Origin]

useImageViewer_clampPanOffset(offset) ==
  [x |-> Max(-maxPan, Min(maxPan, offset.x)),
   y |-> Max(-maxPan, Min(maxPan, offset.y))]

ImageViewerStep(next) ==
  /\ imageViewer' = next
  /\ UNCHANGED <<gvars, fvars, lvars, pvars, tvars, svars>>

useImageViewer_resetZoomState ==
  ImageViewerStep(ImageViewerInitial)

useImageViewer_cycleViewerMode ==
  ImageViewerStep([imageViewer EXCEPT !.viewerMode = NextOption(@),
                                      !.zoomLevel = ZoomOne,
                                      !.panOffset = Origin])

useImageViewer_handleWheel(direction) ==
  /\ imageViewer.viewerMode = "zoom"
  /\ ImageViewerStep([imageViewer EXCEPT
       !.zoomLevel = Max(MIN_ZOOM, Min(MAX_ZOOM, @ + direction * ZOOM_STEP))])

useImageViewer_handlePointerDown(clientX, clientY) ==
  /\ imageViewer.viewerMode = "zoom"
  /\ ImageViewerStep([imageViewer EXCEPT !.isPanning = TRUE,
                                         !.pointerStart = [x |-> clientX, y |-> clientY],
                                         !.panStart = imageViewer.panOffset])

useImageViewer_handlePointerMove(clientX, clientY) ==
  /\ imageViewer.isPanning /\ imageViewer.viewerMode = "zoom"
  /\ LET dx == clientX - imageViewer.pointerStart.x
         dy == clientY - imageViewer.pointerStart.y
         newOffset == [x |-> imageViewer.panStart.x + dx, y |-> imageViewer.panStart.y + dy]
     IN ImageViewerStep([imageViewer EXCEPT !.panOffset = useImageViewer_clampPanOffset(newOffset)])

useImageViewer_handlePointerUp ==
  ImageViewerStep([imageViewer EXCEPT !.isPanning = FALSE])

useImageViewer_handleDoubleClick ==
  IF imageViewer.viewerMode = "zoom"
  THEN useImageViewer_resetZoomState
  ELSE ImageViewerStep([imageViewer EXCEPT !.viewerMode = "zoom", !.zoomLevel = ZoomEntry])

ImageViewerNext ==
  \/ useImageViewer_resetZoomState
  \/ useImageViewer_cycleViewerMode
  \/ \E direction \in {-1, 1} : useImageViewer_handleWheel(direction)
  \/ \E point \in Points : useImageViewer_handlePointerDown(point.x, point.y)
  \/ \E point \in Points : useImageViewer_handlePointerMove(point.x, point.y)
  \/ useImageViewer_handlePointerUp
  \/ useImageViewer_handleDoubleClick

(* ------------------------ claims: useImageViewer ----------------------- *)
\* C27: in the state machine of useImageViewer the pan offset is (0,0) in every
\* reachable state whose zoom level is at most 1, whatever cycle, double-click,
\* wheel and pointer events came before.
C27_HookPanIsZeroUpToZoomOne ==
  imageViewer.zoomLevel <= ZoomOne => imageViewer.panOffset = Origin

(* ============================ specifications =========================== *)
\* the application before its first effects run
Init ==
  /\ serverTotal \in 0..MaxTotal
  /\ gallery = InitialGallery
  /\ galleryVersion = 0
  /\ effectVersion = -1
  /\ gen = NoGens
  /\ favorites = <<>>
  /\ storage \in StoredValues
  /\ favMounted = FALSE
  /\ persistPending = FALSE
  /\ favLog = InitialFavLog(storage)
  /\ viewer = ViewerInitial
  /\ viewerLog = InitialViewerLog
  /\ viewerEnv \in {PanningUser, HastyUser}
  /\ previewImage = NoImage
  /\ mutation = InitialMutation
  /\ calls = <<>>
  /\ trashed = {}
  /\ previewLog = InitialPreviewLog
  /\ timelineInput \in [images : {<<>>}, offset : Offsets]
  /\ timelineResult = TimelineOf(<<>>, timelineInput.offset)
  /\ activeView = "all"
  /\ viewRouting = useViewRouting("all")
  /\ persons = InitialPersons
  /\ selectedPersonId = NoPerson
  /\ personsVersion = 0
  /\ people = {}
  /\ shell = InitialShell
  /\ imageViewer = ImageViewerInitial

Next == GalleryNext \/ FavoritesNext \/ LightboxNext \/ PreviewNext \/ TimelineNext

Spec == Init /\ [][Next]_vars

\* the gallery loader against a server of any size
InitGallery ==
  /\ serverTotal \in 0..MaxTotal
  /\ gallery = InitialGallery
  /\ galleryVersion = 0
  /\ effectVersion = -1
  /\ gen = NoGens
  /\ favorites = <<>>
  /\ storage = Absent
  /\ favMounted = FALSE
  /\ persistPending = FALSE
  /\ favLog = InitialFavLog(Absent)
  /\ viewer = ViewerInitial
  /\ viewerLog = InitialViewerLog
  /\ viewerEnv = HastyUser
  /\ previewImage = NoImage
  /\ mutation = InitialMutation
  /\ calls = <<>>
  /\ trashed = {}
  /\ previewLog = InitialPreviewLog
  /\ timelineInput = [images |-> <<>>, offset |-> 0]
  /\ timelineResult = TimelineOf(<<>>, 0)
  /\ activeView = "all"
  /\ viewRouting = useViewRouting("all")
  /\ persons = InitialPersons
  /\ selectedPersonId = NoPerson
  /\ personsVersion = 0
  /\ people = {}
  /\ shell = InitialShell
  /\ imageViewer = ImageViewerInitial

SpecGallery == InitGallery /\ [][GalleryNext]_vars

\* the favorites store started on any stored text
InitFavorites ==
  /\ serverTotal = 0
  /\ gallery = InitialGallery
  /\ galleryVersion = 0
  /\ effectVersion = -1
  /\ gen = NoGens
  /\ favorites = <<>>
  /\ storage \in StoredValues
  /\ favMounted = FALSE
  /\ persistPending = FALSE
  /\ favLog = InitialFavLog(storage)
  /\ viewer = ViewerInitial
  /\ viewerLog = InitialViewerLog
  /\ viewerEnv = HastyUser
  /\ previewImage = NoImage
  /\ mutation = InitialMutation
  /\ calls = <<>>
  /\ trashed = {}
  /\ previewLog = InitialPreviewLog
  /\ timelineInput = [images |-> <<>>, offset |-> 0]
  /\ timelineResult = TimelineOf(<<>>, 0)
  /\ activeView = "all"
  /\ viewRouting = useViewRouting("all")
  /\ persons = InitialPersons
  /\ selectedPersonId = NoPerson
  /\ personsVersion = 0
  /\ people = {}
  /\ shell = InitialShell
  /\ imageViewer = ImageViewerInitial

SpecFavorites == InitFavorites /\ [][FavoritesNext]_vars

\* the Lightbox with a user who acts while notices are displayed
InitLightbox ==
  /\ serverTotal = 0
  /\ gallery = InitialGallery
  /\ galleryVersion = 0
  /\ effectVersion = -1
  /\ gen = NoGens
  /\ favorites = <<>>
  /\ storage = Absent
  /\ favMounted = FALSE
  /\ persistPending = FALSE
  /\ favLog = InitialFavLog(Absent)
  /\ viewer = ViewerInitial
  /\ viewerLog = InitialViewerLog
  /\ viewerEnv = HastyUser
  /\ previewImage = NoImage
  /\ mutation = InitialMutation
  /\ calls = <<>>
  /\ trashed = {}
  /\ previewLog = InitialPreviewLog
  /\ timelineInput = [images |-> <<>>, offset |-> 0]
  /\ timelineResult = TimelineOf(<<>>, 0)
  /\ activeView = "all"
  /\ viewRouting = useViewRouting("all")
  /\ persons = InitialPersons
  /\ selectedPersonId = NoPerson
  /\ personsVersion = 0
  /\ people = {}
  /\ shell = InitialShell
  /\ imageViewer = ImageViewerInitial

SpecLightbox == InitLightbox /\ [][LightboxNext]_vars

\* the same, where every pending timeout eventually fires
SpecLightboxTimed == SpecLightbox /\ WF_vars(NoticeTimeout)

\* the Lightbox with a user who pans the image
InitLightboxPan ==
  /\ serverTotal = 0
  /\ gallery = InitialGallery
  /\ galleryVersion = 0
  /\ effectVersion = -1
  /\ gen = NoGens
  /\ favorites = <<>>
  /\ storage = Absent
  /\ favMounted = FALSE
  /\ persistPending = FALSE
  /\ favLog = InitialFavLog(Absent)
  /\ viewer = ViewerInitial
  /\ viewerLog = InitialViewerLog
  /\ viewerEnv = PanningUser
  /\ previewImage = NoImage
  /\ mutation = InitialMutation
  /\ calls = <<>>
  /\ trashed = {}
  /\ previewLog = InitialPreviewLog
  /\ timelineInput = [images |-> <<>>, offset |-> 0]
  /\ timelineResult = TimelineOf(<<>>, 0)
  /\ activeView = "all"
  /\ viewRouting = useViewRouting("all")
  /\ persons = InitialPersons
  /\ selectedPersonId = NoPerson
  /\ personsVersion = 0
  /\ people = {}
  /\ shell = InitialShell
  /\ imageViewer = ImageViewerInitial

SpecLightboxPan == InitLightboxPan /\ [][LightboxNext]_vars

\* the preview over a small library
InitPreview ==
  /\ serverTotal \in 1..MaxShown
  /\ gallery = InitialGallery
  /\ galleryVersion = 0
  /\ effectVersion = -1
  /\ gen = NoGens
  /\ favorites = <<>>
  /\ storage = Absent
  /\ favMounted = FALSE
  /\ persistPending = FALSE
  /\ favLog = InitialFavLog(Absent)
  /\ viewer = ViewerInitial
  /\ viewerLog = InitialViewerLog
  /\ viewerEnv = HastyUser
  /\ previewImage = NoImage
  /\ mutation = InitialMutation
  /\ calls = <<>>
  /\ trashed = {}
  /\ previewLog = InitialPreviewLog
  /\ timelineInput = [images |-> <<>>, offset |-> 0]
  /\ timelineResult = TimelineOf(<<>>, 0)
  /\ activeView = "all"
  /\ viewRouting = useViewRouting("all")
  /\ persons = InitialPersons
  /\ selectedPersonId = NoPerson
  /\ personsVersion = 0
  /\ people = {}
  /\ shell = InitialShell
  /\ imageViewer = ImageViewerInitial

\* the library fits the first page and the server answers every load
PreviewLoadNext ==
  \/ GalleryEffect
  \/ \E g \in 0..MaxRefresh : FirstPageResolve(g)

SpecPreview == InitPreview /\ [][PreviewLoadNext \/ PreviewNext]_vars

\* useTimeline in a time zone behind, at or ahead of UTC
InitTimeline ==
  /\ serverTotal = 0
  /\ gallery = InitialGallery
  /\ galleryVersion = 0
  /\ effectVersion = -1
  /\ gen = NoGens
  /\ favorites = <<>>
  /\ storage = Absent
  /\ favMounted = FALSE
  /\ persistPending = FALSE
  /\ favLog = InitialFavLog(Absent)
  /\ viewer = ViewerInitial
  /\ viewerLog = InitialViewerLog
  /\ viewerEnv = HastyUser
  /\ previewImage = NoImage
  /\ mutation = InitialMutation
  /\ calls = <<>>
  /\ trashed = {}
  /\ previewLog = InitialPreviewLog
  /\ timelineInput \in [images : {<<>>}, offset : Offsets]
  /\ timelineResult = TimelineOf(<<>>, timelineInput.offset)
  /\ activeView = "all"
  /\ viewRouting = useViewRouting("all")
  /\ persons = InitialPersons
  /\ selectedPersonId = NoPerson
  /\ personsVersion = 0
  /\ people = {}
  /\ shell = InitialShell
  /\ imageViewer = ImageViewerInitial

SpecTimeline == InitTimeline /\ [][TimelineNext]_vars

\* the shell with its views and the people of the faces view
InitShell ==
  /\ serverTotal = 0
  /\ gallery = InitialGallery
  /\ galleryVersion = 0
  /\ effectVersion = -1
  /\ gen = NoGens
  /\ favorites = <<>>
  /\ storage = Absent
  /\ favMounted = FALSE
  /\ persistPending = FALSE
  /\ favLog = InitialFavLog(Absent)
  /\ viewer = ViewerInitial
  /\ viewerLog = InitialViewerLog
  /\ viewerEnv = HastyUser
  /\ previewImage = NoImage
  /\ mutation = InitialMutation
  /\ calls = <<>>
  /\ trashed = {}
  /\ previewLog = InitialPreviewLog
  /\ timelineInput = [images |-> <<>>, offset |-> 0]
  /\ timelineResult = TimelineOf(<<>>, 0)
  /\ activeView = "all"
  /\ viewRouting = useViewRouting("all")
  /\ persons = InitialPersons
  /\ selectedPersonId = NoPerson
  /\ personsVersion = 0
  /\ people \in {1..k : k \in 0..MaxPersons}
  /\ shell = [InitialShell EXCEPT !.nextId = Cardinality(people) + 1]
  /\ imageViewer = ImageViewerInitial

SpecShell == InitShell /\ [][ShellNext]_vars

SpecViews == InitShell /\ [][ViewsNext]_vars

\* the viewer hook of the shell on its own
InitImageViewer ==
  /\ serverTotal = 0
  /\ gallery = InitialGallery
  /\ galleryVersion = 0
  /\ effectVersion = -1
  /\ gen = NoGens
  /\ favorites = <<>>
  /\ storage = Absent
  /\ favMounted = FALSE
  /\ persistPending = FALSE
  /\ favLog = InitialFavLog(Absent)
  /\ viewer = ViewerInitial
  /\ viewerLog = InitialViewerLog
  /\ viewerEnv = HastyUser
  /\ previewImage = NoImage
  /\ mutation = InitialMutation
  /\ calls = <<>>
  /\ trashed = {}
  /\ previewLog = InitialPreviewLog
  /\ timelineInput = [images |-> <<>>, offset |-> 0]
  /\ timelineResult = TimelineOf(<<>>, 0)
  /\ activeView = "all"
  /\ viewRouting = useViewRouting("all")
  /\ persons = InitialPersons
  /\ selectedPersonId = NoPerson
  /\ personsVersion = 0
  /\ people = {}
  /\ shell = InitialShell
  /\ imageViewer = ImageViewerInitial

SpecImageViewer == InitImageViewer /\ [][ImageViewerNext]_vars

\* the Lightbox viewer under two pointers that move
InitLightboxTouch ==
  /\ serverTotal = 0
  /\ gallery = InitialGallery
  /\ galleryVersion = 0
  /\ effectVersion = -1
  /\ gen = NoGens
  /\ favorites = <<>>
  /\ storage = Absent
  /\ favMounted = FALSE
  /\ persistPending = FALSE
  /\ favLog = InitialFavLog(Absent)
  /\ viewer = ViewerInitial
  /\ viewerLog = InitialViewerLog
  /\ viewerEnv = TwoPointerUser
  /\ previewImage = NoImage
  /\ mutation = InitialMutation
  /\ calls = <<>>
  /\ trashed = {}
  /\ previewLog = InitialPreviewLog
  /\ timelineInput = [images |-> <<>>, offset |-> 0]
  /\ timelineResult = TimelineOf(<<>>, 0)
  /\ activeView = "all"
  /\ viewRouting = useViewRouting("all")
  /\ persons = InitialPersons
  /\ selectedPersonId = NoPerson
  /\ personsVersion = 0
  /\ people = {}
  /\ shell = InitialShell
  /\ imageViewer = ImageViewerInitial

SpecLightboxTouch == InitLightboxTouch /\ [][LightboxTouchNext]_vars

\* the lightbox over the grid of all photos or of the favorites
InitPreviewFavorites ==
  /\ serverTotal \in 1..MaxShown
  /\ gallery = InitialGallery
  /\ galleryVersion = 0
  /\ effectVersion = -1
  /\ gen = NoGens
  /\ favorites = <<>>
  /\ storage \in {JSONStringify(fav) : fav \in SeqsUpTo(1)}
  /\ favMounted = FALSE
  /\ persistPending = FALSE
  /\ favLog = InitialFavLog(storage)
  /\ viewer = ViewerInitial
  /\ viewerLog = InitialViewerLog
  /\ viewerEnv = HastyUser
  /\ previewImage = NoImage
  /\ mutation = InitialMutation
  /\ calls = <<>>
  /\ trashed = {}
  /\ previewLog = InitialPreviewLog
  /\ timelineInput = [images |-> <<>>, offset |-> 0]
  /\ timelineResult = TimelineOf(<<>>, 0)
  /\ activeView \in {"all", "favorites"}
  /\ viewRouting = useViewRouting(activeView)
  /\ persons = InitialPersons
  /\ selectedPersonId = NoPerson
  /\ personsVersion = 0
  /\ people = {}
  /\ shell = InitialShell
  /\ imageViewer = ImageViewerInitial

PreviewFavoritesNext ==
  \/ PreviewLoadNext
  \/ FavoritesMount
  \/ PersistEffect
  \/ \E target \in Ids : toggleFavoriteWrapper(target)
  \/ \E image \in 1..MaxShown : openPreview(image)
  \/ closePreview
  \/ showPreviousImage
  \/ showNextImage

SpecPreviewFavorites == InitPreviewFavorites /\ [][PreviewFavoritesNext]_vars

====
